---------------------------- MODULE Spec2Model ----------------------------
(***************************************************************************)
(* KnowInfo: the verification engine (RAGEngine), the provider fallback    *)
(* chain (ModelManager), the Redis velocity counters, verification cache,  *)
(* and task queue (RedisManager), the bots' verification flows and the     *)
(* Neo4j propagation graph (Neo4jManager).                                 *)
(*                                                                         *)
(* Floats are modelled as exact rationals <<numerator, denominator>> with  *)
(* a positive denominator, kept in lowest terms.                           *)
(***************************************************************************)
EXTENDS Integers, Sequences, FiniteSets, TLC

VARIABLES
    \* ---- ModelManager configuration (model_manager.py) ----
    clients,          \* providers whose client object is not None
    use_local_first,  \* ModelManager.use_local_first
    \* ---- one RAGEngine.verify_claim run (rag_engine.py) ----
    vector_store,     \* TRUE iff RAGEngine.vector_store is not None
    rpc,              \* position of the run: idle, embed, classify, explain, returned, raised, invalid
    results,          \* what vector_store.query returned (credibility, distance per hit)
    sources,          \* the local list `sources` of _retrieve_sources / verify_claim
    consensus,        \* the local dict `consensus` of verify_claim
    result,           \* the VerificationResult returned
    genCalls,         \* number of generate_text calls made by the run
    genFailed,        \* some generate_text call of the run raised "All model providers failed"
    embFailed,        \* generate_embeddings raised "No embedding model available"
    failedAt,         \* index of the candidate whose stance classification raised (0: none)
    \* ---- one ModelManager.generate_text call (model_manager.py) ----
    gpc,              \* idle, loop, returned, raised
    preferred,        \* preferred_provider argument ("none" for None)
    order,            \* the list `providers`
    gi,               \* index of the provider the for loop is at
    attempts,         \* providers contacted so far, in order, each with its outcome
    gout,             \* provider whose text was returned ("none" if none)
    \* ---- one RAGEngine._check_support evaluation ----
    spc,              \* idle, generated, returned
    response,         \* the provider's text, then the text generate_text returned
    supports,         \* the bool _check_support returned
    \* ---- Redis velocity counters (redis_cache.py) ----
    vcount,           \* per fingerprint: value of key velocity:<fingerprint>, 0 when the key does not exist
    vttl,             \* per fingerprint: ticks left before the key expires; 0 when it has no expiry
    cpc,              \* position of each caller of increment_claim_velocity
    ctext,            \* the claim_text argument of each caller
    ccount,           \* the local `count` of each caller
    returns,          \* per fingerprint: the values returned since the key was created
    expired,          \* per fingerprint: the key has expired at least once
    \* ---- _calculate_consensus and _determine_status on one evidence list ----
    kpc,              \* idle, consensus, status
    kevidence,        \* the stance-labelled list `sources`
    kcons,            \* the dict _calculate_consensus returned
    kstatus,          \* the VerificationStatus _determine_status returned
    \* ---- one RedisManager.get_trending_claims call (redis_cache.py) ----
    tpc,              \* idle, returned
    tmin,             \* the min_velocity argument
    trending,         \* the list returned: (fingerprint, count) pairs
    \* ---- the verification cache in Redis (redis_cache.py) ----
    cstore,           \* per key verification:<fingerprint>: the string stored, NoEntry when the key does not exist
    cexp,             \* per key: ticks left before the key expires; 0 when the key does not exist
    cwpc,             \* outcome of the latest cache_verification call: none, ok, raised
    casked,           \* per claim text: the dict passed to the latest cache_verification call
    cage,             \* per claim text: ticks since that call
    cgpc,             \* idle, returned: a get_cached_verification call has just returned
    cgtext,           \* its claim_text argument
    cgot,             \* what it returned
    \* ---- the bots' verification flows (telegram_bot.py, whatsapp_bot.py) ----
    redis_manager,    \* TRUE iff the global redis_manager is not None (init_redis has run)
    redis_up,         \* TRUE iff the Redis server answers commands
    flow,             \* per flow: pc, bot, text, claims, verification, reply, raised
    \* ---- the Redis task queue (redis_cache.py) ----
    queue,            \* the list at key queue:<queue_name>: the JSON strings pushed, head first
    qlog,             \* every task_data passed to enqueue_task, in call order
    received,         \* per consumer: what its dequeue_task calls returned, in call order
    \* ---- the Neo4j propagation graph (neo4j_db.py) ----
    gusers,           \* the User nodes: user_id -> properties
    gposts,           \* the Post nodes: post_id -> properties
    gposted,          \* the POSTED relationships: <<user_id, post_id, timestamp>>
    gshared,          \* the SHARED_FROM relationships: <<shared post_id, original post_id>>
    qpc,              \* idle, patient_zero, tree: the query that has returned
    qarg,             \* its arguments
    qresult,          \* what it returned
    \* ---- the guardrails (guardrails.py) ----
    gconf,            \* the GuardrailsManager: confidence_threshold_low and _high
    gclaim,           \* the Claim the extractor built, or NoClaim
    gver,             \* the VerificationResult passed to the manager
    gtext,            \* the claim_text passed to require_expert_review
    gcheck,           \* what check_confidence_threshold returned, or NoCall
    greview,          \* what require_expert_review returned, or NoCall
    \* ---- the external collaborators of a verification run ----
    hung,             \* none, or the collaborator whose awaited call never returns
    \* ---- the rate limiter of one identifier (redis_cache.py) ----
    rkey,             \* the key rate_limit:<identifier>: NoKey, or its value and time to live
    rlpc,             \* per caller: idle, or read (its GET has been answered)
    rcurrent,         \* per caller: what its GET returned
    ranswers,         \* the answers given since the key last expired, in order
    \* ---- the WhatsApp queue processor (whatsapp_bot.py) ----
    ppc,              \* start, loop, sleep1, sleep5, dead: position of process_queue
    pdone             \* the verify_and_respond calls that have ended: task id and outcome

modelVars  == <<clients, use_local_first>>
ragVars    == <<vector_store, rpc, results, sources, consensus, result,
                genCalls, genFailed, embFailed, failedAt>>
genVars    == <<gpc, preferred, order, gi, attempts, gout>>
stanceVars == <<spc, response, supports>>
redisVars  == <<vcount, vttl, cpc, ctext, ccount, returns, expired>>
consVars   == <<kpc, kevidence, kcons, kstatus>>
trendVars  == <<tpc, tmin, trending>>
\* the variables of the subsystems modelled after the verification engine
cacheVars  == <<cstore, cexp, cwpc, casked, cage, cgpc, cgtext, cgot>>
flowVars   == <<redis_manager, redis_up, flow>>
queueVars  == <<queue, qlog, received>>
graphVars  == <<gusers, gposts, gposted, gshared, qpc, qarg, qresult>>
extVars    == <<trendVars, cacheVars, flowVars, queueVars, graphVars>>
coreVars   == <<modelVars, ragVars, genVars, stanceVars, redisVars, consVars>>
\* the variables of the policy layer and of the callers' loops
guardVars  == <<gconf, gclaim, gver, gtext, gcheck, greview>>
waitVars   == <<hung>>
rateVars   == <<rkey, rlpc, rcurrent, ranswers>>
procVars   == <<ppc, pdone>>
lateVars   == <<guardVars, waitVars, rateVars, procVars>>
vars       == <<coreVars, extVars, lateVars>>

-----------------------------------------------------------------------------
(* Exact rational arithmetic standing for Python floats.                    *)

RECURSIVE GCD(_, _)
GCD(a, b) == IF b = 0 THEN a ELSE GCD(b, a % b)

Abs(x) == IF x < 0 THEN -x ELSE x

Norm(r) ==
    LET g == GCD(Abs(r[1]), r[2])
    IN  <<r[1] \div g, r[2] \div g>>

Rat(n)        == <<n, 1>>
RatAdd(a, b)  == Norm(<<a[1] * b[2] + b[1] * a[2], a[2] * b[2]>>)
RatMul(a, b)  == Norm(<<a[1] * b[1], a[2] * b[2]>>)
RatDivInt(a, n) == Norm(<<a[1], a[2] * n>>)
RatLe(a, b)   == a[1] * b[2] <= b[1] * a[2]
RatLt(a, b)   == a[1] * b[2] < b[1] * a[2]
RatMin(a, b)  == IF RatLe(a, b) THEN a ELSE b
RatMax(a, b)  == IF RatLe(a, b) THEN b ELSE a

Min(a, b) == IF a <= b THEN a ELSE b

-----------------------------------------------------------------------------
(* Text: a Python str is a sequence of one-character strings.               *)

LowerCase == <<"a","b","c","d","e","f","g","h","i","j","k","l","m",
               "n","o","p","q","r","s","t","u","v","w","x","y","z">>
UpperCase == <<"A","B","C","D","E","F","G","H","I","J","K","L","M",
               "N","O","P","Q","R","S","T","U","V","W","X","Y","Z">>

\* str.upper() on one character
UpperChar(c) ==
    IF \E k \in 1..Len(LowerCase) : LowerCase[k] = c
    THEN UpperCase[CHOOSE k \in 1..Len(LowerCase) : LowerCase[k] = c]
    ELSE c

\* str.upper()
Upper(s) == [k \in 1..Len(s) |-> UpperChar(s[k])]

\* str.lower() on one character
LowerChar(c) ==
    IF \E k \in 1..Len(UpperCase) : UpperCase[k] = c
    THEN LowerCase[CHOOSE k \in 1..Len(UpperCase) : UpperCase[k] = c]
    ELSE c

\* str.lower()
Lower(s) == [k \in 1..Len(s) |-> LowerChar(s[k])]

\* needle in hay (Python substring test)
Contains(hay, needle) ==
    \E k \in 1..(Len(hay) - Len(needle) + 1) :
        SubSeq(hay, k, k + Len(needle) - 1) = needle

IsSpace(c) == c \in {" ", "\n", "\t"}

RECURSIVE LStrip(_)
LStrip(s) == IF s # <<>> /\ IsSpace(Head(s)) THEN LStrip(Tail(s)) ELSE s

RECURSIVE RStrip(_)
RStrip(s) ==
    IF s # <<>> /\ IsSpace(s[Len(s)]) THEN RStrip(SubSeq(s, 1, Len(s) - 1)) ELSE s

\* str.strip(), the last step of clean_llm_response
Strip(s) == RStrip(LStrip(s))

SUPPORTS    == <<"S","U","P","P","O","R","T","S">>
CONTRADICTS == <<"C","O","N","T","R","A","D","I","C","T","S">>

-----------------------------------------------------------------------------
(* ModelManager: provider priority and the fallback chain.                  *)

\* class ModelProvider, in declaration order
ModelProvider == <<"ollama", "gemini", "openai", "anthropic">>
Providers == {ModelProvider[k] : k \in 1..Len(ModelProvider)}

RECURSIVE Without(_, _)
Without(seq, p) ==
    IF seq = <<>> THEN <<>>
    ELSE IF Head(seq) = p THEN Without(Tail(seq), p)
         ELSE <<Head(seq)>> \o Without(Tail(seq), p)

\* ModelManager._get_provider_priority
GetProviderPriority(pref, localFirst) ==
    IF pref # "none" THEN <<pref>> \o Without(ModelProvider, pref)
    ELSE IF localFirst THEN <<"ollama", "gemini", "openai", "anthropic">>
    ELSE <<"gemini", "openai", "anthropic", "ollama">>

\* The for loop of generate_text from position k on, as one evaluation: the
\* provider whose text is returned, or "raise" for RuntimeError("All model
\* providers failed"). `answering` are the providers whose call does not raise.
RECURSIVE GenerateTextFrom(_, _, _, _)
GenerateTextFrom(ord, k, cl, answering) ==
    IF k > Len(ord) THEN "raise"
    ELSE IF ord[k] \in cl /\ ord[k] \in answering THEN ord[k]
    ELSE GenerateTextFrom(ord, k + 1, cl, answering)

\* ModelManager.generate_text with preferred_provider = None
GenerateText(cl, localFirst, answering) ==
    GenerateTextFrom(GetProviderPriority("none", localFirst), 1, cl, answering)

\* ModelManager.generate_embeddings: Ollama, then OpenAI, else RuntimeError
GenerateEmbeddings(cl, answering) ==
    IF "ollama" \in cl /\ "ollama" \in answering THEN "ollama"
    ELSE IF "openai" \in cl /\ "openai" \in answering THEN "openai"
    ELSE "raise"

-----------------------------------------------------------------------------
(* RAGEngine: the pure steps of verify_claim.                               *)

\* class SourceCredibility: the values the corpus is drawn from (the code tells
\* only HIGH from the other levels)
Credibilities == {"high", "medium"}
\* retrieval distances of the hits (non-negative, as Chroma's default metric)
Distances == {0, 1}
\* default of _retrieve_sources' top_k
TopK == 5
\* number of documents in the knowledge base
MaxDocs == 5

\* relevance_score = max(0.0, min(1.0, 1.0 / (1.0 + distance)))
Relevance(distance) ==
    RatMax(Rat(0), RatMin(Rat(1), Norm(<<1, 1 + distance>>)))

\* VerificationSource's Field(ge=0.0, le=1.0) on relevance_score
ValidSource(src) ==
    RatLe(Rat(0), src.relevance_score) /\ RatLe(src.relevance_score, Rat(1))

\* _check_support: "SUPPORTS" in response.upper()
CheckSupport(resp) == Contains(Upper(resp), SUPPORTS)

Supporting(srcs) == Cardinality({k \in 1..Len(srcs) : srcs[k].supports_claim})

\* _calculate_consensus with strict comparisons (> and < for >= and <=)
CalculateConsensusStrict(srcs) ==
    LET ratio == Norm(<<Supporting(srcs), Len(srcs)>>)
    IN  IF RatLt(<<9, 10>>, ratio) \/ RatLt(ratio, <<1, 10>>)
        THEN [type |-> "unanimous", confidence |-> 95, supporting_ratio |-> ratio]
        ELSE IF RatLt(<<7, 10>>, ratio) \/ RatLt(ratio, <<3, 10>>)
        THEN [type |-> "majority", confidence |-> 70, supporting_ratio |-> ratio]
        ELSE [type |-> "split", confidence |-> 40, supporting_ratio |-> ratio]

\* _calculate_consensus, sources non-empty
CalculateConsensus(srcs) ==
    LET ratio == Norm(<<Supporting(srcs), Len(srcs)>>)
    IN  IF RatLe(<<9, 10>>, ratio) \/ RatLe(ratio, <<1, 10>>)
        THEN [type |-> "unanimous", confidence |-> 95, supporting_ratio |-> ratio]
        ELSE IF RatLe(<<7, 10>>, ratio) \/ RatLe(ratio, <<3, 10>>)
        THEN [type |-> "majority", confidence |-> 70, supporting_ratio |-> ratio]
        ELSE [type |-> "split", confidence |-> 40, supporting_ratio |-> ratio]

\* _determine_status with the misleading band widened to close the gaps
DetermineStatusNoGaps(cons) ==
    LET ratio == cons.supporting_ratio
    IN  IF RatLe(<<8, 10>>, ratio) THEN "true"
        ELSE IF RatLe(ratio, <<2, 10>>) THEN "false"
        ELSE "misleading"

\* _determine_status
DetermineStatus(cons) ==
    LET ratio == cons.supporting_ratio
    IN  IF RatLe(<<8, 10>>, ratio) THEN "true"
        ELSE IF RatLe(ratio, <<2, 10>>) THEN "false"
        ELSE IF RatLe(<<3, 10>>, ratio) /\ RatLe(ratio, <<7, 10>>) THEN "misleading"
        ELSE "unverified"

RECURSIVE SumRelevance(_)
SumRelevance(srcs) ==
    IF srcs = <<>> THEN Rat(0)
    ELSE RatAdd(Head(srcs).relevance_score, SumRelevance(Tail(srcs)))

HighCredCount(srcs) == Cardinality({k \in 1..Len(srcs) : srcs[k].credibility = "high"})

\* credibility_boost without its cap of 20
CredibilityBoostUncapped(srcs) == HighCredCount(srcs) * 5

\* credibility_boost = min(high_cred_count * 5, 20)
CredibilityBoost(srcs) == Min(HighCredCount(srcs) * 5, 20)

\* avg_relevance = sum(...) / len(sources) if sources else 0
AvgRelevance(srcs) ==
    IF srcs = <<>> THEN Rat(0) ELSE RatDivInt(SumRelevance(srcs), Len(srcs))

\* _calculate_confidence without the final min(..., 100.0)
CalculateConfidenceUnclamped(srcs, cons) ==
    RatMul(Rat(cons.confidence + CredibilityBoost(srcs)), AvgRelevance(srcs))

\* _calculate_confidence
CalculateConfidence(srcs, cons) ==
    LET final_confidence ==
            RatMul(Rat(cons.confidence + CredibilityBoost(srcs)), AvgRelevance(srcs))
    IN  RatMin(final_confidence, Rat(100))

\* VerificationResult's Field(ge=0.0, le=100.0) on confidence_score
ValidResult(res) ==
    RatLe(Rat(0), res.confidence_score) /\ RatLe(res.confidence_score, Rat(100))

NoResult == [status |-> "none"]
NoConsensus == [type |-> "unset"]

\* verify_claim, lines 49-56: the result when `sources` is empty
NoEvidenceResult ==
    [status |-> "unverified", confidence_score |-> Rat(0), sources |-> <<>>,
     supporting_sources_count |-> 0, contradicting_sources_count |-> 0,
     consensus_type |-> "none", expert_review_required |-> FALSE]

\* verify_claim, lines 64-81
BuildResult(srcs, cons) ==
    LET confidence == CalculateConfidence(srcs, cons)
    IN  [status |-> DetermineStatus(cons), confidence_score |-> confidence,
         sources |-> srcs,
         supporting_sources_count |-> Supporting(srcs),
         contradicting_sources_count |-> Len(srcs) - Supporting(srcs),
         consensus_type |-> cons.type,
         expert_review_required |-> RatLt(confidence, Rat(60))]

-----------------------------------------------------------------------------
(* RAGEngine.verify_claim as a process: one step per await.                 *)

Hits == [credibility : Credibilities, distance : Distances]

\* vector_store.query returns its hits nearest first
QueryResults(n) ==
    {res \in [1..n -> Hits] :
        \A k \in 1..(n - 1) : res[k].distance <= res[k + 1].distance}

\* texts the generation service answers a stance prompt with
RagResponses == {SUPPORTS, CONTRADICTS}

\* model manager configurations the verification runs are explored under
RagConfigs == {{"ollama"}, {"gemini", "openai"}}

RagIdle ==
    /\ rpc = "idle"
    /\ results = <<>>
    /\ sources = <<>>
    /\ consensus = NoConsensus
    /\ result = NoResult
    /\ genCalls = 0
    /\ genFailed = FALSE
    /\ embFailed = FALSE
    /\ failedAt = 0

\* verify_claim up to the first await: _retrieve_sources returns [] at once
\* when the vector store was never initialised
StartVerify ==
    /\ rpc = "idle"
    /\ IF vector_store
       THEN /\ rpc' = "embed"
            /\ UNCHANGED result
       ELSE /\ rpc' = "returned"
            /\ result' = NoEvidenceResult
    /\ UNCHANGED <<vector_store, results, sources, consensus, genCalls,
                   genFailed, embFailed, failedAt>>
    /\ UNCHANGED <<modelVars, genVars, stanceVars, redisVars, consVars, extVars, lateVars>>

\* _retrieve_sources, lines 101-109: the embedding call and the store query.
\* Any exception is caught at line 137 and gives [].
EmbedAndQuery ==
    /\ rpc = "embed"
    /\ \E answering \in SUBSET clients :
         IF GenerateEmbeddings(clients, answering) = "raise"
         THEN /\ embFailed' = TRUE
              /\ rpc' = "returned"
              /\ result' = NoEvidenceResult
              /\ UNCHANGED results
         ELSE \E queryOk \in BOOLEAN :
              \E n \in 0..Min(TopK, MaxDocs) :
              \E res \in QueryResults(n) :
                 /\ UNCHANGED embFailed
                 /\ IF queryOk /\ n > 0
                    THEN /\ results' = res
                         /\ rpc' = "classify"
                         /\ UNCHANGED result
                    ELSE /\ results' = <<>>
                         /\ rpc' = "returned"
                         /\ result' = NoEvidenceResult
    /\ UNCHANGED <<vector_store, sources, consensus, genCalls, genFailed, failedAt>>
    /\ UNCHANGED <<modelVars, genVars, stanceVars, redisVars, consVars, extVars, lateVars>>

\* _retrieve_sources, lines 112-139: one iteration of the loop, which awaits
\* _check_support; after the last one verify_claim goes on to line 59.
ClassifyCandidate ==
    /\ rpc = "classify"
    /\ LET i   == Len(sources) + 1
           hit == results[i]
           src == [credibility |-> hit.credibility,
                   relevance_score |-> Relevance(hit.distance),
                   supports_claim |-> FALSE]
       IN  \E answering \in SUBSET clients :
           \E resp \in RagResponses :
             IF ~ValidSource(src)
             THEN \* ValidationError, caught at line 137
                  /\ sources' = <<>>
                  /\ rpc' = "returned"
                  /\ result' = NoEvidenceResult
                  /\ UNCHANGED <<consensus, genCalls, genFailed, failedAt>>
             ELSE IF GenerateText(clients, use_local_first, answering) = "raise"
             THEN \* RuntimeError out of _check_support, caught at line 137
                  /\ sources' = <<>>
                  /\ rpc' = "returned"
                  /\ result' = NoEvidenceResult
                  /\ genCalls' = genCalls + 1
                  /\ genFailed' = TRUE
                  /\ failedAt' = i
                  /\ UNCHANGED consensus
             ELSE LET labelled == [src EXCEPT !.supports_claim = CheckSupport(resp)]
                      srcs     == Append(sources, labelled)
                  IN  /\ sources' = srcs
                      /\ genCalls' = genCalls + 1
                      /\ UNCHANGED <<genFailed, failedAt, result>>
                      /\ IF i = Len(results)
                         THEN /\ consensus' = CalculateConsensus(srcs)
                              /\ rpc' = "explain"
                         ELSE /\ UNCHANGED consensus
                              /\ rpc' = "classify"
    /\ UNCHANGED <<vector_store, results, embFailed>>
    /\ UNCHANGED <<modelVars, genVars, stanceVars, redisVars, consVars, extVars, lateVars>>

\* verify_claim, lines 62-90: _generate_explanation awaits generate_text, whose
\* RuntimeError nothing catches; then status, confidence and the result.
Explain ==
    /\ rpc = "explain"
    /\ \E answering \in SUBSET clients :
         /\ genCalls' = genCalls + 1
         /\ IF GenerateText(clients, use_local_first, answering) = "raise"
            THEN /\ genFailed' = TRUE
                 /\ rpc' = "raised"
                 /\ UNCHANGED result
            ELSE LET res == BuildResult(sources, consensus)
                 IN  /\ UNCHANGED genFailed
                     /\ IF ValidResult(res)
                        THEN /\ rpc' = "returned"
                             /\ result' = res
                        ELSE /\ rpc' = "invalid"
                             /\ UNCHANGED result
    /\ UNCHANGED <<vector_store, results, sources, consensus, embFailed, failedAt>>
    /\ UNCHANGED <<modelVars, genVars, stanceVars, redisVars, consVars, extVars, lateVars>>

NextRag == StartVerify \/ EmbedAndQuery \/ ClassifyCandidate \/ Explain

-----------------------------------------------------------------------------
(* ModelManager.generate_text as a process: one step per loop iteration.    *)

GenIdle ==
    /\ gpc = "idle"
    /\ preferred = "none"
    /\ order = <<>>
    /\ gi = 0
    /\ attempts = <<>>
    /\ gout = "none"

\* generate_text, line 109
GenCall ==
    /\ gpc = "idle"
    /\ \E pref \in Providers \cup {"none"} :
         /\ preferred' = pref
         /\ order' = GetProviderPriority(pref, use_local_first)
    /\ gi' = 1
    /\ gpc' = "loop"
    /\ UNCHANGED <<attempts, gout>>
    /\ UNCHANGED <<modelVars, ragVars, stanceVars, redisVars, consVars, extVars, lateVars>>

\* generate_text retrying the provider that has just failed
GenIterateRetry ==
    /\ gpc = "loop"
    /\ gi <= Len(order)
    /\ LET provider == order[gi]
       IN  IF provider \in clients
           THEN \E ok \in BOOLEAN :
                  /\ attempts' = Append(attempts, [provider |-> provider, ok |-> ok])
                  /\ IF ok
                     THEN /\ gpc' = "returned"
                          /\ gout' = provider
                          /\ UNCHANGED gi
                     ELSE UNCHANGED <<gi, gpc, gout>>
           ELSE /\ gi' = gi + 1
                /\ UNCHANGED <<gpc, gout, attempts>>
    /\ UNCHANGED <<preferred, order>>
    /\ UNCHANGED <<modelVars, ragVars, stanceVars, redisVars, consVars, extVars, lateVars>>

\* generate_text, lines 111-127: one iteration. A provider without a client
\* matches no branch and the loop moves on; a provider with a client is called,
\* and either its text is returned or its exception is logged and skipped.
GenIterate ==
    /\ gpc = "loop"
    /\ gi <= Len(order)
    /\ LET provider == order[gi]
       IN  IF provider \in clients
           THEN \E ok \in BOOLEAN :
                  /\ attempts' = Append(attempts, [provider |-> provider, ok |-> ok])
                  /\ IF ok
                     THEN /\ gpc' = "returned"
                          /\ gout' = provider
                          /\ UNCHANGED gi
                     ELSE /\ gi' = gi + 1
                          /\ UNCHANGED <<gpc, gout>>
           ELSE /\ gi' = gi + 1
                /\ UNCHANGED <<gpc, gout, attempts>>
    /\ UNCHANGED <<preferred, order>>
    /\ UNCHANGED <<modelVars, ragVars, stanceVars, redisVars, consVars, extVars, lateVars>>

\* generate_text, line 129
GenRaise ==
    /\ gpc = "loop"
    /\ gi > Len(order)
    /\ gpc' = "raised"
    /\ UNCHANGED <<preferred, order, gi, attempts, gout>>
    /\ UNCHANGED <<modelVars, ragVars, stanceVars, redisVars, consVars, extVars, lateVars>>

NextGen == GenCall \/ GenIterate \/ GenRaise

-----------------------------------------------------------------------------
(* RAGEngine._check_support on one provider text.                           *)

LowerSupports == <<"s","u","p","p","o","r","t","s">>
CommaNot      == <<",", " ", "n", "o", "t", " ">>
Space         == <<" ">>

\* pieces the provider texts are built from
Tokens == {SUPPORTS, LowerSupports, CONTRADICTS, CommaNot, Space}
\* longest provider text, in pieces
MaxTokens == 3

RECURSIVE Flatten(_)
Flatten(pieces) ==
    IF pieces = <<>> THEN <<>> ELSE Head(pieces) \o Flatten(Tail(pieces))

ProviderTexts ==
    {Flatten(ps) : ps \in UNION {[1..n -> Tokens] : n \in 0..MaxTokens}}

\* clean_llm_response on a text without <think> tags: text.strip()
CleanLLMResponse(text) == Strip(text)

StanceIdle ==
    /\ spc = "idle"
    /\ response = <<>>
    /\ supports = FALSE

\* _check_support, lines 151-155: generate_text returns the cleaned text
StanceGenerate ==
    /\ spc = "idle"
    /\ response' = CleanLLMResponse(response)
    /\ spc' = "generated"
    /\ UNCHANGED supports
    /\ UNCHANGED <<modelVars, ragVars, genVars, redisVars, consVars, extVars, lateVars>>

\* _check_support, line 157
StanceReturn ==
    /\ spc = "generated"
    /\ supports' = CheckSupport(response)
    /\ spc' = "returned"
    /\ UNCHANGED response
    /\ UNCHANGED <<modelVars, ragVars, genVars, redisVars, consVars, extVars, lateVars>>

NextStance == StanceGenerate \/ StanceReturn

-----------------------------------------------------------------------------
(* RedisManager: the velocity counters. Redis runs each command atomically; *)
(* a key created by INCR has no expiry until EXPIRE sets one; an expired    *)
(* key no longer exists.                                                    *)

\* claim texts whose mentions are counted
Texts == {"a", "b"}
\* hash(claim_text) within one interpreter process
Hash(text) == CASE text = "a" -> "h1" [] text = "b" -> "h2"
\* key = f"velocity:{hash(claim_text)}"
VelocityKey(text) == <<"velocity", Hash(text)>>
VelocityKeys == {VelocityKey(t) : t \in Texts}

\* callers of increment_claim_velocity
Callers == {"c1", "c2"}
\* window_seconds (default 3600), in clock ticks
VWindow == 2
\* most increments of one counter that are explored
MaxIncr == 4

RedisIdle ==
    /\ vcount = [k \in VelocityKeys |-> 0]
    /\ vttl = [k \in VelocityKeys |-> 0]
    /\ cpc = [c \in Callers |-> "idle"]
    /\ ctext = [c \in Callers |-> "a"]
    /\ ccount = [c \in Callers |-> 0]
    /\ returns = [k \in VelocityKeys |-> <<>>]
    /\ expired = [k \in VelocityKeys |-> FALSE]

\* a call of increment_claim_velocity(claim_text) begins; calls are made one
\* after another
VCall(c) ==
    /\ \A d \in Callers : cpc[d] = "idle"
    /\ \E t \in Texts :
         /\ vcount[VelocityKey(t)] < MaxIncr
         /\ ctext' = [ctext EXCEPT ![c] = t]
    /\ cpc' = [cpc EXCEPT ![c] = "incr"]
    /\ UNCHANGED <<vcount, vttl, ccount, returns, expired>>
    /\ UNCHANGED <<modelVars, ragVars, genVars, stanceVars, consVars, extVars, lateVars>>

\* increment_claim_velocity with INCR replaced by a write of the caller's own
\* last count plus one (a read-modify-write on a cached value)
VIncrCached(c) ==
    /\ cpc[c] = "incr"
    /\ LET key   == VelocityKey(ctext[c])
           count == ccount[c] + 1
       IN  /\ vcount' = [vcount EXCEPT ![key] = count]
           /\ ccount' = [ccount EXCEPT ![c] = count]
           /\ IF count = 1
              THEN /\ cpc' = [cpc EXCEPT ![c] = "expire"]
                   /\ UNCHANGED returns
              ELSE /\ cpc' = [cpc EXCEPT ![c] = "idle"]
                   /\ returns' = [returns EXCEPT ![key] = Append(@, count)]
    /\ UNCHANGED <<vttl, ctext, expired>>
    /\ UNCHANGED <<modelVars, ragVars, genVars, stanceVars, consVars, extVars, lateVars>>

\* increment_claim_velocity, lines 125-132: count = await client.incr(key);
\* when count != 1 the call returns count without another await
VIncr(c) ==
    /\ cpc[c] = "incr"
    /\ LET key   == VelocityKey(ctext[c])
           count == vcount[key] + 1
       IN  /\ vcount' = [vcount EXCEPT ![key] = count]
           /\ ccount' = [ccount EXCEPT ![c] = count]
           /\ IF count = 1
              THEN /\ cpc' = [cpc EXCEPT ![c] = "expire"]
                   /\ UNCHANGED returns
              ELSE /\ cpc' = [cpc EXCEPT ![c] = "idle"]
                   /\ returns' = [returns EXCEPT ![key] = Append(@, count)]
    /\ UNCHANGED <<vttl, ctext, expired>>
    /\ UNCHANGED <<modelVars, ragVars, genVars, stanceVars, consVars, extVars, lateVars>>

\* increment_claim_velocity returning without the call of client.expire
VExpireSkipped(c) ==
    /\ cpc[c] = "expire"
    /\ returns' = [returns EXCEPT ![VelocityKey(ctext[c])] = Append(@, ccount[c])]
    /\ cpc' = [cpc EXCEPT ![c] = "idle"]
    /\ UNCHANGED <<vcount, vttl, ctext, ccount, expired>>
    /\ UNCHANGED <<modelVars, ragVars, genVars, stanceVars, consVars, extVars, lateVars>>

\* increment_claim_velocity, lines 129-132: await client.expire(key,
\* window_seconds), then return count
VExpire(c) ==
    /\ cpc[c] = "expire"
    /\ LET key == VelocityKey(ctext[c])
       IN  /\ vttl' = [vttl EXCEPT ![key] = IF vcount[key] > 0 THEN VWindow ELSE @]
           /\ returns' = [returns EXCEPT ![key] = Append(@, ccount[c])]
    /\ cpc' = [cpc EXCEPT ![c] = "idle"]
    /\ UNCHANGED <<vcount, ctext, ccount, expired>>
    /\ UNCHANGED <<modelVars, ragVars, genVars, stanceVars, consVars, extVars, lateVars>>

\* the clock advances by one tick; a key whose time is up is deleted by Redis
Tick ==
    /\ \E k \in VelocityKeys : vttl[k] > 0
    /\ vttl' = [k \in VelocityKeys |-> IF vttl[k] > 0 THEN vttl[k] - 1 ELSE 0]
    /\ vcount' = [k \in VelocityKeys |-> IF vttl[k] = 1 THEN 0 ELSE vcount[k]]
    /\ returns' = [k \in VelocityKeys |-> IF vttl[k] = 1 THEN <<>> ELSE returns[k]]
    /\ expired' = [k \in VelocityKeys |-> expired[k] \/ vttl[k] = 1]
    /\ UNCHANGED <<cpc, ctext, ccount>>
    /\ UNCHANGED <<modelVars, ragVars, genVars, stanceVars, consVars, extVars, lateVars>>

NextVelocity ==
    \/ \E c \in Callers : VCall(c)
    \/ \E c \in Callers : VIncr(c)
    \/ \E c \in Callers : VExpire(c)
    \/ Tick

-----------------------------------------------------------------------------
(* increment_claim_velocity called from several tasks at once. Every await  *)
(* is a point where another task runs, and where the awaiting task can be   *)
(* cancelled or the command can fail.                                       *)

\* a call of increment_claim_velocity(claim_text) begins while other calls
\* may be in progress
VCallConcurrent(c) ==
    /\ cpc[c] = "idle"
    /\ \E t \in Texts :
         /\ vcount[VelocityKey(t)] + Cardinality({d \in Callers :
                cpc[d] = "incr" /\ ctext[d] = t}) < MaxIncr
         /\ ctext' = [ctext EXCEPT ![c] = t]
    /\ cpc' = [cpc EXCEPT ![c] = "incr"]
    /\ UNCHANGED <<vcount, vttl, ccount, returns, expired>>
    /\ UNCHANGED <<modelVars, ragVars, genVars, stanceVars, consVars, extVars, lateVars>>

\* increment_claim_velocity, lines 126-130: the task is cancelled, or
\* client.expire raises, after client.incr has created the key: the call
\* returns nothing and the key keeps the state INCR left it in
VCancel(c) ==
    /\ cpc[c] = "expire"
    /\ cpc' = [cpc EXCEPT ![c] = "cancelled"]
    /\ UNCHANGED <<vcount, vttl, ctext, ccount, returns, expired>>
    /\ UNCHANGED <<modelVars, ragVars, genVars, stanceVars, consVars, extVars, lateVars>>

NextConcurrent ==
    \/ \E c \in Callers : VCallConcurrent(c)
    \/ \E c \in Callers : VIncr(c)
    \/ \E c \in Callers : VExpire(c)
    \/ \E c \in Callers : VCancel(c)
    \/ Tick

-----------------------------------------------------------------------------
(* RedisManager.get_trending_claims: SCAN over velocity:*, GET of each key, *)
(* filter, sort by count, largest first.                                    *)

\* key.replace("velocity:", "")
Fingerprint(key) == key[2]

\* the keys SCAN yields: those that exist
ExistingKeys == {k \in VelocityKeys : vcount[k] > 0}

\* the (fingerprint, count) pairs appended to `trending`
TrendingPairs(min_velocity) ==
    {<<Fingerprint(k), vcount[k]>> : k \in {e \in ExistingKeys : vcount[e] >= min_velocity}}

\* sorted(trending, key=lambda x: x[1], reverse=True): every ordering of the
\* pairs by falling count; pairs of equal count stay in SCAN order, which
\* Redis does not fix
SortedByCount(pairs) ==
    {s \in [1..Cardinality(pairs) -> pairs] :
        /\ \A i, j \in 1..Cardinality(pairs) : i # j => s[i] # s[j]
        /\ \A i, j \in 1..Cardinality(pairs) : i < j => s[i][2] >= s[j][2]}

\* the min_velocity arguments explored
Thresholds == 1..MaxIncr

TrendIdle ==
    /\ tpc = "idle"
    /\ tmin = 0
    /\ trending = <<>>

\* get_trending_claims(min_velocity), lines 140-160
GetTrendingClaims(min_velocity) ==
    /\ tpc = "idle"
    /\ tmin' = min_velocity
    /\ trending' \in SortedByCount(TrendingPairs(min_velocity))
    /\ tpc' = "returned"
    /\ UNCHANGED <<coreVars, cacheVars, flowVars, queueVars, graphVars, lateVars>>

\* counters are incremented and expire until the list of trending claims is
\* read
NextTrending ==
    \/ \E c \in Callers : tpc = "idle" /\ VCall(c)
    \/ \E c \in Callers : tpc = "idle" /\ VIncr(c)
    \/ \E c \in Callers : tpc = "idle" /\ VExpire(c)
    \/ tpc = "idle" /\ Tick
    \/ \E T \in Thresholds : GetTrendingClaims(T)


-----------------------------------------------------------------------------
(* _calculate_consensus and _determine_status on evidence lists of any      *)
(* length (top_k is a parameter of _retrieve_sources).                      *)

\* longest evidence list explored
MaxEvidence == 10

\* a list of `total` labelled sources of which `supporting` support the claim
Evidence(supporting, total) ==
    [k \in 1..total |->
        [credibility |-> "medium", relevance_score |-> Rat(1),
         supports_claim |-> (k <= supporting)]]

ConsIdle ==
    /\ kpc = "idle"
    /\ kevidence = <<>>
    /\ kcons = NoConsensus
    /\ kstatus = "none"

\* verify_claim, line 59
ConsensusStep ==
    /\ kpc = "idle"
    /\ kevidence # <<>>
    /\ kcons' = CalculateConsensus(kevidence)
    /\ kpc' = "consensus"
    /\ UNCHANGED <<kevidence, kstatus>>
    /\ UNCHANGED <<modelVars, ragVars, genVars, stanceVars, redisVars, extVars, lateVars>>

\* verify_claim, line 65
StatusStep ==
    /\ kpc = "consensus"
    /\ kstatus' = DetermineStatus(kcons)
    /\ kpc' = "status"
    /\ UNCHANGED <<kevidence, kcons>>
    /\ UNCHANGED <<modelVars, ragVars, genVars, stanceVars, redisVars, extVars, lateVars>>

NextConsensus == ConsensusStep \/ StatusStep

-----------------------------------------------------------------------------
(* RedisManager: the verification cache. A Python value is a pair           *)
(* <<type, payload>>; a dict is a function from its keys to such values; a  *)
(* JSON text is a function from the keys to JSON tokens <<kind, payload>>.  *)

\* key = f"verification:{hash(claim_text)}"
VerificationKey(text) == <<"verification", Hash(text)>>
VerificationKeys == {VerificationKey(t) : t \in Texts}

\* the key does not exist / None
NoEntry == [absent |-> "key"]
NoDict == [absent |-> "dict"]
\* json.dumps raised TypeError: Object of type datetime is not JSON serializable
TypeErrorRaised == [raised |-> "TypeError"]

\* VerificationResult.dict(): the fields keep their Python types; the enum
\* fields are strings (use_enum_values); verification_timestamp is the
\* datetime that default_factory=datetime.utcnow produced
ResultDict(res) ==
    [status |-> <<"str", res.status>>,
     confidence_score |-> <<"float", res.confidence_score>>,
     consensus_type |-> <<"str", res.consensus_type>>,
     expert_review_required |-> <<"bool", res.expert_review_required>>,
     verification_timestamp |-> <<"datetime", "utcnow">>]

\* the same result with its timestamp written as an ISO string
PlainDict(res) ==
    [ResultDict(res) EXCEPT !.verification_timestamp = <<"str", "utcnow">>]

\* json.dumps of one value
JsonEncode(v) ==
    CASE v[1] = "str" -> <<"string", v[2]>>
      [] v[1] = "float" -> <<"number", v[2]>>
      [] v[1] = "bool" -> <<IF v[2] THEN "true" ELSE "false", "">>
      [] v[1] = "none" -> <<"null", "">>

\* json.loads of one token
JsonDecode(j) ==
    CASE j[1] = "string" -> <<"str", j[2]>>
      [] j[1] = "number" -> <<"float", j[2]>>
      [] j[1] = "true" -> <<"bool", TRUE>>
      [] j[1] = "false" -> <<"bool", FALSE>>
      [] j[1] = "null" -> <<"none", "">>

\* json.dumps(value) for a dict
JsonDumps(d) ==
    IF \E f \in DOMAIN d : d[f][1] = "datetime"
    THEN TypeErrorRaised
    ELSE [f \in DOMAIN d |-> JsonEncode(d[f])]

\* json.loads(value)
JsonLoads(js) == [f \in DOMAIN js |-> JsonDecode(js[f])]

\* a verify_claim result with evidence (one supporting source) and the result
\* of a run without evidence
SampleResults ==
    {NoEvidenceResult,
     BuildResult(Evidence(1, 1), CalculateConsensus(Evidence(1, 1)))}

\* the dicts passed to cache_verification
CacheDicts == {ResultDict(r) : r \in SampleResults} \cup {PlainDict(r) : r \in SampleResults}

\* expire_seconds (default 3600), in clock ticks
CacheTTL == 2

CacheIdle ==
    /\ cstore = [k \in VerificationKeys |-> NoEntry]
    /\ cexp = [k \in VerificationKeys |-> 0]
    /\ cwpc = "none"
    /\ casked = [t \in Texts |-> NoDict]
    /\ cage = [t \in Texts |-> 0]
    /\ cgpc = "idle"
    /\ cgtext = "a"
    /\ cgot = NoDict

\* RedisManager.set(key, value, expire), lines 59-61, for a dict value: the
\* new store and expiries, or TypeErrorRaised
RedisSet(key, d, expire) ==
    LET js == JsonDumps(d)
    IN  IF js = TypeErrorRaised THEN TypeErrorRaised
        ELSE [store |-> [cstore EXCEPT ![key] = js],
              exp   |-> [cexp EXCEPT ![key] = expire]]

\* RedisManager.get(key), lines 44-50
RedisGet(key) ==
    IF cstore[key] = NoEntry THEN NoDict ELSE JsonLoads(cstore[key])

\* cache_verification(claim_text, verification_result), lines 72-81
CacheVerification(text, d) ==
    /\ cgpc = "idle"
    /\ LET w == RedisSet(VerificationKey(text), d, CacheTTL)
       IN  IF w = TypeErrorRaised
           THEN /\ cwpc' = "raised"
                /\ UNCHANGED <<cstore, cexp>>
           ELSE /\ cwpc' = "ok"
                /\ cstore' = w.store
                /\ cexp' = w.exp
    /\ casked' = [casked EXCEPT ![text] = d]
    /\ cage' = [cage EXCEPT ![text] = 0]
    /\ UNCHANGED <<cgpc, cgtext, cgot>>
    /\ UNCHANGED <<coreVars, trendVars, flowVars, queueVars, graphVars, lateVars>>

\* get_cached_verification(claim_text), lines 83-89
GetCachedVerification(text) ==
    /\ cgpc = "idle"
    /\ cgot' = RedisGet(VerificationKey(text))
    /\ cgtext' = text
    /\ cgpc' = "returned"
    /\ UNCHANGED <<cstore, cexp, cwpc, casked, cage>>
    /\ UNCHANGED <<coreVars, trendVars, flowVars, queueVars, graphVars, lateVars>>

\* the caller takes the returned value; the next call can begin
CacheReturn ==
    /\ cgpc = "returned"
    /\ cgpc' = "idle"
    /\ cgot' = NoDict
    /\ UNCHANGED <<cstore, cexp, cwpc, casked, cage, cgtext>>
    /\ UNCHANGED <<coreVars, trendVars, flowVars, queueVars, graphVars, lateVars>>

\* the clock advances by one tick; a key whose time is up is deleted by Redis
CacheTick ==
    /\ cgpc = "idle"
    /\ \E t \in Texts : casked[t] # NoDict /\ cage[t] < CacheTTL
    /\ cexp' = [k \in VerificationKeys |-> IF cexp[k] > 0 THEN cexp[k] - 1 ELSE 0]
    /\ cstore' = [k \in VerificationKeys |-> IF cexp[k] = 1 THEN NoEntry ELSE cstore[k]]
    /\ cage' = [t \in Texts |->
                  IF casked[t] # NoDict /\ cage[t] < CacheTTL THEN cage[t] + 1 ELSE cage[t]]
    /\ UNCHANGED <<cwpc, casked, cgpc, cgtext, cgot>>
    /\ UNCHANGED <<coreVars, trendVars, flowVars, queueVars, graphVars, lateVars>>

NextCache ==
    \/ \E t \in Texts : \E d \in CacheDicts : CacheVerification(t, d)
    \/ \E t \in Texts : GetCachedVerification(t)
    \/ CacheReturn
    \/ CacheTick

-----------------------------------------------------------------------------
(* TelegramFactCheckBot.verify_claim and WhatsAppBot.verify_and_respond:    *)
(* cache lookup, claim extraction, verification, cache write, reply. The    *)
(* whole body is inside one try block whose handler sends the error reply.  *)

Flows == {"f1", "f2"}
Bots == {"telegram", "whatsapp"}

\* verify_claim raised (a provider failure in _generate_explanation)
VerifyRaised == [status |-> "raised"]

NewFlow ==
    [pc |-> "idle", bot |-> "telegram", text |-> "a", claims |-> "unset",
     verification |-> NoResult, reply |-> "none", raised |-> FALSE]

FlowIdle ==
    /\ redis_manager = TRUE
    /\ redis_up = TRUE
    /\ flow = [f \in Flows |-> NewFlow]

\* the except branch: the error reply is sent; verify_and_respond re-raises
\* (whatsapp_bot.py:231-244), verify_claim of the Telegram bot returns
\* (telegram_bot.py:238-248)
FlowError(fl) ==
    [fl EXCEPT !.pc = "done", !.reply = "error", !.raised = (fl.bot = "whatsapp")]

\* a message arrives: handle_message / process_queue calls the flow
FlowStart(f) ==
    /\ flow[f].pc = "idle"
    /\ \E b \in Bots : \E t \in Texts :
         flow' = [flow EXCEPT ![f] = [@ EXCEPT !.pc = "lookup", !.bot = b, !.text = t]]
    /\ UNCHANGED <<redis_manager, redis_up>>
    /\ UNCHANGED <<coreVars, trendVars, cacheVars, queueVars, graphVars, lateVars>>

\* redis = await get_redis(); cached_result = await
\* redis.get_cached_verification(claim_text); a hit is sent as the reply
\* (telegram_bot.py:170-184, whatsapp_bot.py:161-174)
FlowLookup(f) ==
    /\ flow[f].pc = "lookup"
    /\ LET fl == flow[f]
           cached_result == RedisGet(VerificationKey(fl.text))
       IN  flow' = [flow EXCEPT ![f] =
               IF ~redis_manager \/ ~redis_up THEN FlowError(fl)
               ELSE IF cached_result # NoDict
                    THEN [fl EXCEPT !.pc = "done", !.reply = "cached"]
                    ELSE [fl EXCEPT !.pc = "extract"]]
    /\ UNCHANGED <<redis_manager, redis_up>>
    /\ UNCHANGED <<coreVars, trendVars, cacheVars, queueVars, graphVars, lateVars>>

\* claims = await self.claim_extractor.extract_claims(content); extract_claims
\* returns [] on any failure (telegram_bot.py:187-212, whatsapp_bot.py:177-205)
FlowExtract(f) ==
    /\ flow[f].pc = "extract"
    /\ \E found \in BOOLEAN :
         flow' = [flow EXCEPT ![f] =
             IF found THEN [@ EXCEPT !.pc = "verify", !.claims = "some"]
             ELSE [@ EXCEPT !.pc = "done", !.claims = "none", !.reply = "no_claims"]]
    /\ UNCHANGED <<redis_manager, redis_up>>
    /\ UNCHANGED <<coreVars, trendVars, cacheVars, queueVars, graphVars, lateVars>>

\* verification = await self.rag_engine.verify_claim(claims[0])
\* (telegram_bot.py:215, whatsapp_bot.py:208)
FlowVerify(f) ==
    /\ flow[f].pc = "verify"
    /\ \E v \in SampleResults \cup {VerifyRaised} :
         flow' = [flow EXCEPT ![f] =
             IF v = VerifyRaised THEN [FlowError(@) EXCEPT !.verification = v]
             ELSE [@ EXCEPT !.pc = "cache", !.verification = v]]
    /\ UNCHANGED <<redis_manager, redis_up>>
    /\ UNCHANGED <<coreVars, trendVars, cacheVars, queueVars, graphVars, lateVars>>

\* await redis.cache_verification(claim_text, verification.dict()), then the
\* verdict is sent (telegram_bot.py:218-224, whatsapp_bot.py:211-215); the
\* send is reached only when cache_verification has returned
FlowCacheAndSend(f) ==
    /\ flow[f].pc = "cache"
    /\ LET fl == flow[f]
           d  == ResultDict(fl.verification)
           w  == RedisSet(VerificationKey(fl.text), d, CacheTTL)
       IN  /\ casked' = [casked EXCEPT ![fl.text] = d]
           /\ cage' = [cage EXCEPT ![fl.text] = 0]
           /\ IF w = TypeErrorRaised \/ ~redis_up
              THEN /\ flow' = [flow EXCEPT ![f] = FlowError(fl)]
                   /\ cwpc' = "raised"
                   /\ UNCHANGED <<cstore, cexp>>
              ELSE /\ flow' = [flow EXCEPT ![f] = [fl EXCEPT !.pc = "done", !.reply = "verdict"]]
                   /\ cwpc' = "ok"
                   /\ cstore' = w.store
                   /\ cexp' = w.exp
    /\ UNCHANGED <<cgpc, cgtext, cgot>>
    /\ UNCHANGED <<redis_manager, redis_up>>
    /\ UNCHANGED <<coreVars, trendVars, queueVars, graphVars, lateVars>>

NextFlow ==
    \/ \E f \in Flows : FlowStart(f)
    \/ \E f \in Flows : FlowLookup(f)
    \/ \E f \in Flows : FlowExtract(f)
    \/ \E f \in Flows : FlowVerify(f)
    \/ \E f \in Flows : FlowCacheAndSend(f)

-----------------------------------------------------------------------------
(* RedisManager: the task queue. RPUSH appends to the tail of the list and  *)
(* LPOP removes its head; Redis runs each command atomically. Each element  *)
(* carries the number of the enqueue_task call that pushed it.              *)

Consumers == {"k1", "k2"}

\* the task_data dicts of queue_whatsapp_query
Tasks ==
    {[phone_number |-> <<"str", "+1">>, claim_text |-> <<"str", t>>,
      timestamp |-> <<"str", "utcnow">>] : t \in Texts}

\* most enqueue_task calls that are explored
MaxQueue == 4

QueueIdle ==
    /\ queue = <<>>
    /\ qlog = <<>>
    /\ received = [c \in Consumers |-> <<>>]

\* enqueue_task(queue_name, task_data), lines 184-187
EnqueueTask(task_data) ==
    /\ Len(qlog) < MaxQueue
    /\ queue' = Append(queue, [id |-> Len(qlog) + 1, json |-> JsonDumps(task_data)])
    /\ qlog' = Append(qlog, task_data)
    /\ UNCHANGED received
    /\ UNCHANGED <<coreVars, trendVars, cacheVars, flowVars, graphVars, lateVars>>

\* dequeue_task taking the element at the tail of the list (RPOP)
DequeueTaskFromTail(c) ==
    /\ queue # <<>>
    /\ LET e == queue[Len(queue)]
       IN  received' = [received EXCEPT ![c] = Append(@, [id |-> e.id, task |-> JsonLoads(e.json)])]
    /\ queue' = SubSeq(queue, 1, Len(queue) - 1)
    /\ UNCHANGED qlog
    /\ UNCHANGED <<coreVars, trendVars, cacheVars, flowVars, graphVars, lateVars>>

\* dequeue_task(queue_name), lines 189-195; on an empty list LPOP gives None,
\* the call returns None and nothing changes
DequeueTask(c) ==
    /\ queue # <<>>
    /\ received' = [received EXCEPT ![c] =
           Append(@, [id |-> Head(queue).id, task |-> JsonLoads(Head(queue).json)])]
    /\ queue' = Tail(queue)
    /\ UNCHANGED qlog
    /\ UNCHANGED <<coreVars, trendVars, cacheVars, flowVars, graphVars, lateVars>>

NextQueue ==
    \/ \E t \in Tasks : EnqueueTask(t)
    \/ \E c \in Consumers : DequeueTask(c)

-----------------------------------------------------------------------------
(* Neo4jManager: the propagation graph and its queries. MERGE creates a     *)
(* node or relationship only when none with the given properties exists; a  *)
(* MATCH that finds nothing leaves the graph as it is.                      *)

GUsers == {"u1", "u2"}
\* the post ids in rising order
PostOrder == <<"p1", "p2", "p3">>
GPosts == {PostOrder[k] : k \in 1..Len(PostOrder)}
PostRank(p) == CHOOSE k \in 1..Len(PostOrder) : PostOrder[k] = p
\* created_at values
GTimes == {1, 2}
\* timestamps of POSTED relationships
EdgeTimes == {1}
\* claim_text of posts, and the claim texts searched for
PostClaimTexts == {<<"x", "y">>, <<"z">>}
SearchTexts == {<<"x">>, <<"z">>}
\* followers_count values
GFollowers == {10}
\* most POSTED and most SHARED_FROM relationships that are explored
MaxPosted == 3
MaxShared == 2
\* max_depth arguments
Depths == {1, 2}

NotFound == [found |-> FALSE]

GraphIdle ==
    /\ gusers = <<>>
    /\ gposts = <<>>
    /\ gposted = {}
    /\ gshared = {}
    /\ qpc = "idle"
    /\ qarg = <<>>
    /\ qresult = <<>>

\* create_user_node(user_id, user_data), lines 43-63
CreateUserNode(u, followers) ==
    /\ qpc = "idle"
    /\ gusers' = [x \in DOMAIN gusers \cup {u} |->
                    IF x = u THEN [followers_count |-> followers] ELSE gusers[x]]
    /\ UNCHANGED <<gposts, gposted, gshared, qpc, qarg, qresult>>
    /\ UNCHANGED <<coreVars, trendVars, cacheVars, flowVars, queueVars, lateVars>>

\* create_post_node(post_id, post_data), lines 65-88
CreatePostNode(p, claim_text, created_at) ==
    /\ qpc = "idle"
    /\ gposts' = [x \in DOMAIN gposts \cup {p} |->
                    IF x = p THEN [claim_text |-> claim_text, created_at |-> created_at]
                    ELSE gposts[x]]
    /\ UNCHANGED <<gusers, gposted, gshared, qpc, qarg, qresult>>
    /\ UNCHANGED <<coreVars, trendVars, cacheVars, flowVars, queueVars, lateVars>>

\* create_posted_relationship(user_id, post_id, timestamp), lines 91-100
CreatePostedRelationship(u, p, ts) ==
    /\ qpc = "idle"
    /\ u \in DOMAIN gusers
    /\ p \in DOMAIN gposts
    /\ Cardinality(gposted \cup {<<u, p, ts>>}) <= MaxPosted
    /\ gposted' = gposted \cup {<<u, p, ts>>}
    /\ UNCHANGED <<gusers, gposts, gshared, qpc, qarg, qresult>>
    /\ UNCHANGED <<coreVars, trendVars, cacheVars, flowVars, queueVars, lateVars>>

\* create_shared_relationship(user_id, original_post_id, shared_post_id,
\* timestamp), lines 102-125
CreateSharedRelationship(u, original, shared, ts) ==
    /\ qpc = "idle"
    /\ u \in DOMAIN gusers
    /\ original \in DOMAIN gposts
    /\ shared \in DOMAIN gposts
    /\ Cardinality(gposted \cup {<<u, shared, ts>>}) <= MaxPosted
    /\ Cardinality(gshared \cup {<<shared, original>>}) <= MaxShared
    /\ gposted' = gposted \cup {<<u, shared, ts>>}
    /\ gshared' = gshared \cup {<<shared, original>>}
    /\ UNCHANGED <<gusers, gposts, qpc, qarg, qresult>>
    /\ UNCHANGED <<coreVars, trendVars, cacheVars, flowVars, queueVars, lateVars>>

\* every ordering of the rows by rising key[row] (ORDER BY); rows of equal
\* key come in an order the database does not fix
RECURSIVE OrderBy(_, _)
OrderBy(rows, key) ==
    IF rows = {} THEN {<<>>}
    ELSE UNION {{<<r>> \o s : s \in OrderBy(rows \ {r}, key)} :
                   r \in {m \in rows : \A o \in rows : key[m] <= key[o]}}

\* MATCH (p:Post) WHERE p.claim_text CONTAINS $claim_text
MatchingPosts(claim_text) ==
    {p \in DOMAIN gposts : Contains(gposts[p].claim_text, claim_text)}

\* ORDER BY timestamp ASC LIMIT 1: the posts that can come first
EarliestPosts(claim_text) ==
    {p \in MatchingPosts(claim_text) :
        \A o \in MatchingPosts(claim_text) : gposts[p].created_at <= gposts[o].created_at}

\* find_patient_zero(claim_text), lines 128-150: the values it can return.
\* The second MATCH joins the one post kept with its POSTED relationships;
\* result.single() gives the first record, or None when there is none
FindPatientZero(claim_text) ==
    IF MatchingPosts(claim_text) = {} THEN {NotFound}
    ELSE UNION {
           IF \E e \in gposted : e[2] = p
           THEN {[found |-> TRUE, post_id |-> p, created_at |-> gposts[p].created_at,
                  user_id |-> e[1]] : e \in {x \in gposted : x[2] = p}}
           ELSE {NotFound} : p \in EarliestPosts(claim_text)}

\* the call find_patient_zero(claim_text)
PatientZeroQuery(claim_text) ==
    /\ qpc = "idle"
    /\ qpc' = "patient_zero"
    /\ qarg' = <<claim_text>>
    /\ qresult' \in FindPatientZero(claim_text)
    /\ UNCHANGED <<gusers, gposts, gposted, gshared>>
    /\ UNCHANGED <<coreVars, trendVars, cacheVars, flowVars, queueVars, lateVars>>

\* the node sequences <<origin, s1, ..., sk>> of the paths
\* (original)<-[:SHARED_FROM*k]-(shared): each step follows one SHARED_FROM
\* relationship backwards, and a path uses a relationship at most once
RECURSIVE SharedPaths(_, _)
SharedPaths(origin, k) ==
    IF k = 0 THEN {<<origin>>}
    ELSE UNION {{Append(path, s) :
                    s \in {x \in DOMAIN gposts :
                             /\ <<x, path[k]>> \in gshared
                             /\ \A i \in 1..(k - 1) : <<path[i + 1], path[i]>> # <<x, path[k]>>}} :
                path \in SharedPaths(origin, k - 1)}

\* the rows of get_propagation_tree before ORDER BY: one for every path of
\* length 0..max_depth and every POSTED relationship of the post it ends at
TreeRows(original_post_id, max_depth) ==
    IF original_post_id \notin DOMAIN gposts THEN {}
    ELSE UNION {{[path |-> path, posted |-> e] :
                    e \in {x \in gposted : x[2] = path[Len(path)]}} :
                path \in UNION {SharedPaths(original_post_id, k) : k \in 0..max_depth}}

\* ORDER BY depth, created_at
TreeKey(rows) ==
    [r \in rows |->
        (Len(r.path) - 1) * (Cardinality(GTimes) + 1) + gposts[r.path[Len(r.path)]].created_at]

\* the dict built from one record
TreeRecord(r) ==
    [post_id |-> r.path[Len(r.path)],
     created_at |-> gposts[r.path[Len(r.path)]].created_at,
     user_id |-> r.posted[1],
     depth |-> Len(r.path) - 1]

\* get_propagation_tree(original_post_id, max_depth), lines 152-168: the
\* lists it can return
GetPropagationTree(original_post_id, max_depth) ==
    {[k \in 1..Len(s) |-> TreeRecord(s[k])] :
        s \in OrderBy(TreeRows(original_post_id, max_depth),
                      TreeKey(TreeRows(original_post_id, max_depth)))}

\* the call get_propagation_tree(original_post_id, max_depth)
TreeQuery(original_post_id, max_depth) ==
    /\ qpc = "idle"
    /\ qpc' = "tree"
    /\ qarg' = <<original_post_id, max_depth>>
    /\ qresult' \in GetPropagationTree(original_post_id, max_depth)
    /\ UNCHANGED <<gusers, gposts, gposted, gshared>>
    /\ UNCHANGED <<coreVars, trendVars, cacheVars, flowVars, queueVars, lateVars>>

\* followers_count values and min_followers arguments of identify_amplifiers
AmpFollowers == {10, 20}
AmpThresholds == {10, 20}
\* LIMIT 20
AmplifierLimit == 20

\* the rows of identify_amplifiers before aggregation: one for every path
\* (original)<-[:SHARED_FROM*1..3]-(shared) and every POSTED relationship of
\* shared whose user passes WHERE u.followers_count >= $min_followers
AmplifierRows(original_post_id, min_followers) ==
    IF original_post_id \notin DOMAIN gposts THEN {}
    ELSE UNION {{[path |-> path, posted |-> e] :
                    e \in {x \in gposted :
                             /\ x[2] = path[Len(path)]
                             /\ gusers[x[1]].followers_count >= min_followers}} :
                path \in UNION {SharedPaths(original_post_id, k) : k \in 1..3}}

\* RETURN DISTINCT u.user_id, ..., count(shared) AS share_count: the rows
\* are grouped by the user's properties, one record per user
AmplifierRecords(rows) ==
    {[user_id |-> u,
      followers_count |-> gusers[u].followers_count,
      share_count |-> Cardinality({r \in rows : r.posted[1] = u})] :
        u \in {r.posted[1] : r \in rows}}

\* ORDER BY u.followers_count DESC
AmplifierKey(recs) == [r \in recs |-> 0 - r.followers_count]

\* identify_amplifiers(original_post_id, min_followers), lines 170-187: the
\* lists it can return
IdentifyAmplifiers(original_post_id, min_followers) ==
    {SubSeq(s, 1, Min(Len(s), AmplifierLimit)) :
        s \in OrderBy(AmplifierRecords(AmplifierRows(original_post_id, min_followers)),
                      AmplifierKey(AmplifierRecords(
                          AmplifierRows(original_post_id, min_followers))))}

\* the call identify_amplifiers(original_post_id, min_followers)
AmplifierQuery(original_post_id, min_followers) ==
    /\ qpc = "idle"
    /\ qpc' = "amplifiers"
    /\ qarg' = <<original_post_id, min_followers>>
    /\ qresult' \in IdentifyAmplifiers(original_post_id, min_followers)
    /\ UNCHANGED <<gusers, gposts, gposted, gshared>>
    /\ UNCHANGED <<coreVars, trendVars, cacheVars, flowVars, queueVars, lateVars>>

\* claim_text of the posts of a propagation tree
TreeClaimTexts == {<<"z">>}

NextPropagation ==
    \/ \E u \in GUsers : \E n \in GFollowers : CreateUserNode(u, n)
    \/ \E p \in GPosts : \E c \in TreeClaimTexts : \E t \in GTimes : CreatePostNode(p, c, t)
    \/ \E u \in GUsers : \E p \in GPosts : \E ts \in EdgeTimes : CreatePostedRelationship(u, p, ts)
    \/ \E u \in GUsers : \E o, p \in GPosts : \E ts \in EdgeTimes :
          CreateSharedRelationship(u, o, p, ts)
    \/ \E p \in GPosts : \E d \in Depths : TreeQuery(p, d)

NextPatientZero ==
    \/ \E u \in GUsers : \E n \in GFollowers : CreateUserNode(u, n)
    \/ \E p \in GPosts : \E c \in PostClaimTexts : \E t \in GTimes : CreatePostNode(p, c, t)
    \/ \E u \in GUsers : \E p \in GPosts : \E ts \in EdgeTimes : CreatePostedRelationship(u, p, ts)
    \/ \E c \in SearchTexts : PatientZeroQuery(c)

NextAmplifiers ==
    \/ \E u \in GUsers : \E n \in AmpFollowers : CreateUserNode(u, n)
    \/ \E p \in GPosts : \E c \in TreeClaimTexts : \E t \in EdgeTimes : CreatePostNode(p, c, t)
    \/ \E u \in GUsers : \E p \in GPosts : \E ts \in EdgeTimes : CreatePostedRelationship(u, p, ts)
    \/ \E u \in GUsers : \E o, p \in GPosts : \E ts \in EdgeTimes :
          CreateSharedRelationship(u, o, p, ts)
    \/ \E p \in GPosts : \E t \in AmpThresholds : AmplifierQuery(p, t)

-----------------------------------------------------------------------------
(* RedisManager.check_rate_limit for one identifier. GET, SETEX and INCR    *)
(* are separate commands, each atomic; INCR on a key that does not exist    *)
(* creates it with value 1 and no expiry.                                   *)

\* callers of check_rate_limit
RateCallers == {"r1", "r2"}
\* the max_requests and window_seconds arguments (the window in clock ticks)
MaxRequests == 2
RWindow == 2
\* most answers within one lifetime of the key that are explored
MaxCalls == 4

NoKey == [exists |-> FALSE]
\* the ttl of a key without expiry
NoExpiry == 0 - 1

RateIdle ==
    /\ rkey = NoKey
    /\ rlpc = [c \in RateCallers |-> "idle"]
    /\ rcurrent = [c \in RateCallers |-> NoKey]
    /\ ranswers = <<>>

\* check_rate_limit, lines 102-103: current = await self.client.get(key)
RateRead(c) ==
    /\ rlpc[c] = "idle"
    /\ Len(ranswers) + Cardinality({d \in RateCallers : rlpc[d] = "read"}) < MaxCalls
    /\ rcurrent' = [rcurrent EXCEPT ![c] = rkey]
    /\ rlpc' = [rlpc EXCEPT ![c] = "read"]
    /\ UNCHANGED <<rkey, ranswers>>
    /\ UNCHANGED <<coreVars, extVars, guardVars, waitVars, procVars>>

\* check_rate_limit, lines 105-116: the branch taken on what GET returned,
\* its SETEX or INCR, and the answer
RateDecide(c) ==
    /\ rlpc[c] = "read"
    /\ IF rcurrent[c] = NoKey
       THEN \* setex(key, window_seconds, 1)
            /\ rkey' = [value |-> 1, ttl |-> RWindow]
            /\ ranswers' = Append(ranswers,
                                  [allowed |-> TRUE, remaining |-> MaxRequests - 1])
       ELSE IF rcurrent[c].value >= MaxRequests
       THEN /\ ranswers' = Append(ranswers, [allowed |-> FALSE, remaining |-> 0])
            /\ UNCHANGED rkey
       ELSE \* incr(key)
            /\ rkey' = IF rkey = NoKey THEN [value |-> 1, ttl |-> NoExpiry]
                       ELSE [rkey EXCEPT !.value = @ + 1]
            /\ ranswers' = Append(ranswers,
                                  [allowed |-> TRUE,
                                   remaining |-> MaxRequests - rcurrent[c].value - 1])
    /\ rlpc' = [rlpc EXCEPT ![c] = "idle"]
    /\ UNCHANGED rcurrent
    /\ UNCHANGED <<coreVars, extVars, guardVars, waitVars, procVars>>

\* one clock tick: a key with an expiry comes one tick nearer to it and is
\* deleted when it is reached, which ends the window
RateTick ==
    /\ rkey # NoKey
    /\ rkey.ttl # NoExpiry
    /\ IF rkey.ttl = 1
       THEN /\ rkey' = NoKey
            /\ ranswers' = <<>>
       ELSE /\ rkey' = [rkey EXCEPT !.ttl = @ - 1]
            /\ UNCHANGED ranswers
    /\ UNCHANGED <<rlpc, rcurrent>>
    /\ UNCHANGED <<coreVars, extVars, guardVars, waitVars, procVars>>

NextRate ==
    \/ \E c \in RateCallers : RateRead(c)
    \/ \E c \in RateCallers : RateDecide(c)
    \/ RateTick

-----------------------------------------------------------------------------
(* WhatsAppQueueProcessor.process_queue: one consumer of the queue          *)
(* whatsapp_queries. The task it is busy with is the last one its           *)
(* dequeue_task calls returned, until verify_and_respond for it has ended.  *)

\* the consumer that the processor is
Processor == "k1"

ProcIdle ==
    /\ ppc = "start"
    /\ pdone = <<>>

Busy == Len(received[Processor]) > Len(pdone)

CurrentTask == received[Processor][Len(received[Processor])]

\* process_queue, line 268: redis = await get_redis(), outside the try block
ProcStart ==
    /\ ppc = "start"
    /\ ppc' = IF redis_manager THEN "loop" ELSE "dead"
    /\ UNCHANGED pdone
    /\ UNCHANGED <<coreVars, extVars, guardVars, waitVars, rateVars>>

\* process_queue, lines 272-277: dequeue_task returns a task
ProcDequeue ==
    /\ ppc = "loop"
    /\ ~Busy
    /\ DequeueTask(Processor)

\* process_queue, lines 275 and 290-292: dequeue_task returns None
ProcEmpty ==
    /\ ppc = "loop"
    /\ ~Busy
    /\ queue = <<>>
    /\ ppc' = "sleep1"
    /\ UNCHANGED pdone
    /\ UNCHANGED <<coreVars, extVars, guardVars, waitVars, rateVars>>

\* process_queue with an except branch that puts the failed task back on the
\* queue
ProcRespondRequeue ==
    /\ ppc = "loop"
    /\ Busy
    /\ \E outcome \in {"returned", "raised"} :
          /\ pdone' = Append(pdone, [id |-> CurrentTask.id, outcome |-> outcome])
          /\ ppc' = IF outcome = "raised" THEN "sleep5" ELSE "loop"
          /\ queue' = IF outcome = "raised"
                      THEN Append(queue, [id |-> CurrentTask.id,
                                          json |-> JsonDumps(CurrentTask.task)])
                      ELSE queue
    /\ UNCHANGED <<coreVars, trendVars, cacheVars, flowVars, graphVars, qlog, received,
                   guardVars, waitVars, rateVars>>

\* process_queue, lines 277-296: verify_and_respond returns, or raises and
\* the except branch logs the error
ProcRespond ==
    /\ ppc = "loop"
    /\ Busy
    /\ \E outcome \in {"returned", "raised"} :
          /\ pdone' = Append(pdone, [id |-> CurrentTask.id, outcome |-> outcome])
          /\ ppc' = IF outcome = "raised" THEN "sleep5" ELSE "loop"
          /\ queue' = queue
    /\ UNCHANGED <<coreVars, trendVars, cacheVars, flowVars, graphVars, qlog, received,
                   guardVars, waitVars, rateVars>>

\* asyncio.sleep(1) or asyncio.sleep(5) is over: back to the head of the loop
ProcWake ==
    /\ ppc \in {"sleep1", "sleep5"}
    /\ ppc' = "loop"
    /\ UNCHANGED pdone
    /\ UNCHANGED <<coreVars, extVars, guardVars, waitVars, rateVars>>

\* the processor's own steps, apart from the end of verify_and_respond
ProcStep == ProcStart \/ ProcDequeue \/ ProcEmpty \/ ProcWake

NextProcessor ==
    \/ \E t \in Tasks : EnqueueTask(t)
    \/ ProcStart
    \/ ProcDequeue
    \/ ProcEmpty
    \/ ProcRespond
    \/ ProcWake

-----------------------------------------------------------------------------
(* verify_claim with collaborators that may never answer. The run awaits    *)
(* generate_embeddings (rag_engine.py line 103), calls vector_store.query   *)
(* (line 106) and awaits generate_text (lines 151 and 62); none of the      *)
(* calls is given a timeout or wrapped in asyncio.wait_for, so a call that  *)
(* is never answered is never abandoned.                                    *)

WaitIdle == hung = "none"

\* the collaborator called at the run's position stops answering
NeverResponds ==
    /\ hung = "none"
    /\ rpc \in {"embed", "classify", "explain"}
    /\ hung' \in (IF rpc = "embed" THEN {"embedding", "vector_store"} ELSE {"generation"})
    /\ UNCHANGED <<coreVars, extVars, guardVars, rateVars, procVars>>

\* the run goes on only while its awaited call is answered
NextTimeout ==
    \/ (hung = "none" /\ StartVerify)
    \/ (hung = "none" /\ EmbedAndQuery)
    \/ (hung = "none" /\ ClassifyCandidate)
    \/ (hung = "none" /\ Explain)
    \/ NeverResponds

-----------------------------------------------------------------------------
(* ClaimExtractor._determine_priority and the GuardrailsManager. A None is  *)
(* written <<"None">> and a str s <<"str", s>> where both can occur.        *)

\* p0_keywords, p1_keywords, p2_keywords (claim_extractor.py lines 19-34)
P0Keywords ==
    {<<"e","v","a","c","u","a","t","i","o","n">>,
     <<"p","o","i","s","o","n","e","d">>,
     <<"c","o","n","t","a","m","i","n","a","t","e","d">>,
     <<"i","m","m","i","n","e","n","t">>,
     <<"s","h","e","l","t","e","r"," ","i","n"," ","p","l","a","c","e">>,
     <<"l","o","c","k","d","o","w","n">>,
     <<"i","m","m","e","d","i","a","t","e"," ","d","a","n","g","e","r">>}
P1Keywords ==
    {<<"v","a","c","c","i","n","e">>,
     <<"c","u","r","e">>,
     <<"t","r","e","a","t","m","e","n","t">>,
     <<"o","u","t","b","r","e","a","k">>,
     <<"p","a","n","d","e","m","i","c">>,
     <<"v","i","r","u","s">>,
     <<"d","i","s","e","a","s","e">>,
     <<"m","e","d","i","c","a","t","i","o","n">>}
P2Keywords ==
    {<<"g","o","v","e","r","n","m","e","n","t"," ","s","a","y","s">>,
     <<"o","f","f","i","c","i","a","l","s"," ","a","n","n","o","u","n","c","e">>,
     <<"c","d","c"," ","r","e","p","o","r","t","s">>,
     <<"w","h","o"," ","c","o","n","f","i","r","m","s">>,
     <<"p","r","e","s","i","d","e","n","t"," ","d","e","c","l","a","r","e","s">>}

\* _determine_priority(claim_text), lines 98-115
DeterminePriority(claim_text) ==
    LET claim_lower == Lower(claim_text)
    IN  IF \E keyword \in P0Keywords : Contains(claim_lower, keyword) THEN "P0"
        ELSE IF \E keyword \in P1Keywords : Contains(claim_lower, keyword) THEN "P1"
        ELSE IF \E keyword \in P2Keywords : Contains(claim_lower, keyword) THEN "P2"
        ELSE "P3"

\* the terms of require_expert_review's medical test (guardrails.py line 204)
MedicalTerms ==
    {<<"m","e","d","i","c","a","l">>,
     <<"v","a","c","c","i","n","e">>,
     <<"t","r","e","a","t","m","e","n","t">>}

\* str(ClaimPriority.P0) and str("P0"), str("P1"): the texts that
\* str(verification.metadata.get("priority", "")) can give
PriorityP0Enum == <<"C","l","a","i","m","P","r","i","o","r","i","t","y",".","P","0">>
PriorityP0 == <<"P","0">>
PriorityP1 == <<"P","1">>

\* claim texts
ClaimTexts ==
    {<<"E","v","a","c","u","a","t","i","o","n"," ","n","o","w">>,
     <<"V","a","c","c","i","n","e"," ","c","u","r","e">>,
     <<"l","o","c","k","d","o","w","n"," ","t","r","e","a","t","m","e","n","t">>,
     <<"w","h","o"," ","c","o","n","f","i","r","m","s"," ","r","a","i","n">>,
     <<"r","a","i","n">>}

None == <<"None">>
Str(s) == <<"str", s>>
NoCall == [called |-> FALSE]
NoClaim == [extracted |-> FALSE]
\* metadata: Dict[str, Any] = Field(default_factory=dict)
EmptyDict == <<>>

\* GuardrailsManager.__init__, lines 14-20: the default thresholds and a
\* manager built with others
DefaultManager == [confidence_threshold_low |-> 60, confidence_threshold_high |-> 80]
Managers == {DefaultManager,
             [confidence_threshold_low |-> 50, confidence_threshold_high |-> 60]}

\* check_confidence_threshold with <= for the first <
CheckConfidenceThresholdInclusive(self, verification) ==
    IF RatLe(verification.confidence_score, Rat(self.confidence_threshold_low))
    THEN [should_proceed |-> FALSE,
          warning |-> Str("Confidence too low - requires expert review")]
    ELSE IF /\ RatLt(verification.confidence_score, Rat(self.confidence_threshold_high))
            /\ verification.status \in {"false", "misleading"}
    THEN [should_proceed |-> TRUE,
          warning |-> Str("Moderate confidence - flagged for review")]
    ELSE [should_proceed |-> TRUE, warning |-> None]

\* check_confidence_threshold(verification), lines 36-58
CheckConfidenceThreshold(self, verification) ==
    IF RatLt(verification.confidence_score, Rat(self.confidence_threshold_low))
    THEN [should_proceed |-> FALSE,
          warning |-> Str("Confidence too low - requires expert review")]
    ELSE IF /\ RatLt(verification.confidence_score, Rat(self.confidence_threshold_high))
            /\ verification.status \in {"false", "misleading"}
    THEN [should_proceed |-> TRUE,
          warning |-> Str("Moderate confidence - flagged for review")]
    ELSE [should_proceed |-> TRUE, warning |-> None]

\* str(verification.metadata.get("priority", ""))
PriorityText(metadata) ==
    IF "priority" \in DOMAIN metadata THEN metadata["priority"] ELSE <<>>

\* require_expert_review with the P0 test before the split-consensus test
RequireExpertReviewP0First(self, verification, claim_text) ==
    IF RatLt(verification.confidence_score, Rat(self.confidence_threshold_low))
    THEN [requires_review |-> TRUE, reason |-> "Low confidence score"]
    ELSE IF Contains(PriorityText(verification.metadata), PriorityP0)
    THEN [requires_review |-> TRUE,
          reason |-> "P0 priority claim - potential imminent harm"]
    ELSE IF verification.consensus_type = "split"
    THEN [requires_review |-> TRUE, reason |-> "Conflicting evidence from sources"]
    ELSE IF /\ \E term \in MedicalTerms : Contains(Lower(claim_text), term)
            /\ HighCredCount(verification.sources) < 2
    THEN [requires_review |-> TRUE,
          reason |-> "Medical claim with insufficient high-credibility sources"]
    ELSE [requires_review |-> FALSE, reason |-> ""]

\* require_expert_review(verification, claim_text), lines 181-212
RequireExpertReview(self, verification, claim_text) ==
    IF RatLt(verification.confidence_score, Rat(self.confidence_threshold_low))
    THEN [requires_review |-> TRUE, reason |-> "Low confidence score"]
    ELSE IF verification.consensus_type = "split"
    THEN [requires_review |-> TRUE, reason |-> "Conflicting evidence from sources"]
    ELSE IF Contains(PriorityText(verification.metadata), PriorityP0)
    THEN [requires_review |-> TRUE,
          reason |-> "P0 priority claim - potential imminent harm"]
    ELSE IF /\ \E term \in MedicalTerms : Contains(Lower(claim_text), term)
            /\ HighCredCount(verification.sources) < 2
    THEN [requires_review |-> TRUE,
          reason |-> "Medical claim with insufficient high-credibility sources"]
    ELSE [requires_review |-> FALSE, reason |-> ""]

\* class VerificationStatus
Statuses == {"true", "false", "misleading", "unverified", "outdated"}
\* confidence scores on both sides of the managers' thresholds
GuardConfidences == {Rat(0), Rat(49), Rat(50), Rat(59), <<119, 2>>, Rat(60),
                     Rat(79), Rat(80), Rat(100)}
\* source lists with no, one and two sources of high credibility
GuardSources ==
    {<<>>,
     <<[credibility |-> "high", relevance_score |-> Rat(1), supports_claim |-> TRUE]>>,
     <<[credibility |-> "high", relevance_score |-> Rat(1), supports_claim |-> TRUE],
       [credibility |-> "high", relevance_score |-> Rat(1), supports_claim |-> FALSE]>>}
\* the metadata a caller can attach to a result
GuardMetadata == {EmptyDict, [priority |-> PriorityP0], [priority |-> PriorityP0Enum],
                  [priority |-> PriorityP1]}
\* the VerificationResults passed to the manager
GuardVerifications ==
    [status : Statuses, confidence_score : GuardConfidences,
     consensus_type : {"unanimous", "split"}, sources : GuardSources,
     metadata : GuardMetadata]

GuardIdle ==
    /\ gconf = DefaultManager
    /\ gclaim = NoClaim
    /\ gver = NoResult
    /\ gtext = <<>>
    /\ gcheck = NoCall
    /\ greview = NoCall

LateIdle == GuardIdle /\ WaitIdle /\ RateIdle /\ ProcIdle

\* the call check_confidence_threshold(verification)
CheckThresholdCall ==
    /\ gver # NoResult
    /\ gcheck = NoCall
    /\ gcheck' = CheckConfidenceThreshold(gconf, gver)
    /\ UNCHANGED <<gconf, gclaim, gver, gtext, greview>>
    /\ UNCHANGED <<coreVars, extVars, waitVars, rateVars, procVars>>

\* the call require_expert_review(verification, claim_text)
ExpertReviewCall ==
    /\ gver # NoResult
    /\ greview = NoCall
    /\ greview' = RequireExpertReview(gconf, gver, gtext)
    /\ UNCHANGED <<gconf, gclaim, gver, gtext, gcheck>>
    /\ UNCHANGED <<coreVars, extVars, waitVars, rateVars, procVars>>

\* extract_claims, lines 70-80: the Claim built for one claim text
ExtractedClaim(claim_text) ==
    [claim_text |-> claim_text, priority |-> DeterminePriority(claim_text)]

\* the claim texts of the claims that are verified and then routed
RoutedTexts == {t \in ClaimTexts : DeterminePriority(t) \in {"P0", "P3"}}

\* the VerificationResult as verify_claim constructs it: no metadata is
\* passed, so the field takes its default
WithDefaults(res) == res @@ [metadata |-> EmptyDict]

\* require_expert_review(verification, claim.claim_text) on the result that
\* verify_claim(claim) returned
RouteResult ==
    /\ rpc = "returned"
    /\ gclaim # NoClaim
    /\ greview = NoCall
    /\ gver' = WithDefaults(result)
    /\ gtext' = gclaim.claim_text
    /\ greview' = RequireExpertReview(gconf, WithDefaults(result), gclaim.claim_text)
    /\ UNCHANGED <<gconf, gclaim, gcheck>>
    /\ UNCHANGED <<coreVars, extVars, waitVars, rateVars, procVars>>

NextRouting == StartVerify \/ EmbedAndQuery \/ ClassifyCandidate \/ Explain \/ RouteResult

NextGuard == CheckThresholdCall \/ ExpertReviewCall

-----------------------------------------------------------------------------
(* Specifications.                                                          *)

ExtIdle == TrendIdle /\ CacheIdle /\ FlowIdle /\ QueueIdle /\ GraphIdle /\ LateIdle

ModelIdle ==
    /\ clients = {}
    /\ use_local_first = TRUE

\* verification runs
InitRag ==
    /\ clients \in RagConfigs
    /\ use_local_first = TRUE
    /\ vector_store \in BOOLEAN
    /\ RagIdle /\ GenIdle /\ StanceIdle /\ RedisIdle /\ ConsIdle /\ ExtIdle

SpecRag == InitRag /\ [][NextRag]_vars

\* generate_text calls under every configuration of the model manager
InitGen ==
    /\ clients \in SUBSET Providers
    /\ use_local_first \in BOOLEAN
    /\ vector_store = FALSE
    /\ RagIdle /\ GenIdle /\ StanceIdle /\ RedisIdle /\ ConsIdle /\ ExtIdle

SpecGen == InitGen /\ [][NextGen]_vars

\* _check_support on every provider text
InitStance ==
    /\ ModelIdle
    /\ vector_store = FALSE
    /\ RagIdle /\ GenIdle /\ RedisIdle /\ ConsIdle /\ ExtIdle
    /\ spc = "idle"
    /\ response \in ProviderTexts
    /\ supports = FALSE

SpecStance == InitStance /\ [][NextStance]_vars

\* sequential increment_claim_velocity calls and the passing of time
InitVelocity ==
    /\ ModelIdle
    /\ vector_store = FALSE
    /\ RagIdle /\ GenIdle /\ StanceIdle /\ RedisIdle /\ ConsIdle /\ ExtIdle

SpecVelocity == InitVelocity /\ [][NextVelocity]_vars

\* increment_claim_velocity calls that overlap, some of them cut short
SpecConcurrent == InitVelocity /\ [][NextConcurrent]_vars

\* get_trending_claims after any sequence of increments and expiries
SpecTrending == InitVelocity /\ [][NextTrending]_vars

\* cache_verification and get_cached_verification calls, one after another,
\* and the passing of time
SpecCache == InitVelocity /\ [][NextCache]_vars

\* two verification flows of the bots, with the cache store initialised or
\* not, reachable or not
InitFlow ==
    /\ ModelIdle
    /\ vector_store = FALSE
    /\ RagIdle /\ GenIdle /\ StanceIdle /\ RedisIdle /\ ConsIdle
    /\ TrendIdle /\ CacheIdle /\ QueueIdle /\ GraphIdle /\ LateIdle
    /\ redis_manager \in BOOLEAN
    /\ redis_up \in BOOLEAN
    /\ redis_manager = FALSE => redis_up = FALSE
    /\ flow = [f \in Flows |-> NewFlow]

SpecFlow == InitFlow /\ [][NextFlow]_vars

\* producers and consumers of one task queue
SpecQueue == InitVelocity /\ [][NextQueue]_vars

\* find_patient_zero on every graph of users, posts and POSTED relationships
SpecPatientZero == InitVelocity /\ [][NextPatientZero]_vars

\* get_propagation_tree on every graph of users, posts, POSTED and
\* SHARED_FROM relationships
SpecPropagation == InitVelocity /\ [][NextPropagation]_vars

\* identify_amplifiers on every graph of users of differing followers_count
SpecAmplifiers == InitVelocity /\ [][NextAmplifiers]_vars

\* the guardrail checks on every verification result, claim text and manager
InitGuard ==
    /\ ModelIdle
    /\ vector_store = FALSE
    /\ RagIdle /\ GenIdle /\ StanceIdle /\ RedisIdle /\ ConsIdle
    /\ TrendIdle /\ CacheIdle /\ FlowIdle /\ QueueIdle /\ GraphIdle /\ WaitIdle /\ RateIdle /\ ProcIdle
    /\ gconf \in Managers
    /\ gclaim = NoClaim
    /\ gver \in GuardVerifications
    /\ gtext \in ClaimTexts
    /\ gcheck = NoCall
    /\ greview = NoCall

SpecGuard == InitGuard /\ [][NextGuard]_vars

\* verify_claim on an extracted claim, and the routing of its result
InitRouting ==
    /\ clients = {"ollama"}
    /\ use_local_first = TRUE
    /\ vector_store \in BOOLEAN
    /\ RagIdle /\ GenIdle /\ StanceIdle /\ RedisIdle /\ ConsIdle
    /\ TrendIdle /\ CacheIdle /\ FlowIdle /\ QueueIdle /\ GraphIdle /\ WaitIdle /\ RateIdle /\ ProcIdle
    /\ gconf = DefaultManager
    /\ gclaim \in {ExtractedClaim(t) : t \in RoutedTexts}
    /\ gver = NoResult
    /\ gtext = <<>>
    /\ gcheck = NoCall
    /\ greview = NoCall

SpecRouting == InitRouting /\ [][NextRouting]_vars

\* a verification run whose collaborators answer, fail or never answer; the
\* event loop resumes the run whenever the call it awaits has completed
InitTimeout ==
    /\ clients = {"ollama"}
    /\ use_local_first = TRUE
    /\ vector_store = TRUE
    /\ RagIdle /\ GenIdle /\ StanceIdle /\ RedisIdle /\ ConsIdle /\ ExtIdle

SpecTimeout == InitTimeout /\ [][NextTimeout]_vars /\ WF_vars(NextTimeout)

\* check_rate_limit calls for one identifier that overlap, and the passing
\* of time
SpecRate == InitVelocity /\ [][NextRate]_vars

\* queue_whatsapp_query calls and one queue processor; the event loop runs
\* the processor's steps whenever they can be taken
SpecProcessor == InitVelocity /\ [][NextProcessor]_vars /\ WF_vars(ProcStep)

\* consensus and status of every evidence list up to MaxEvidence sources
InitConsensus ==
    /\ ModelIdle
    /\ vector_store = FALSE
    /\ RagIdle /\ GenIdle /\ StanceIdle /\ RedisIdle /\ ExtIdle
    /\ kpc = "idle"
    /\ \E total \in 1..MaxEvidence : \E supporting \in 0..total :
         kevidence = Evidence(supporting, total)
    /\ kcons = NoConsensus
    /\ kstatus = "none"

SpecConsensus == InitConsensus /\ [][NextConsensus]_vars

-----------------------------------------------------------------------------
(* Claims about verify_claim (SpecRag).                                     *)

RagTerminal == rpc \in {"returned", "raised", "invalid"}

\* C1: every VerificationResult that verify_claim returns has a
\* confidence_score between 0 and 100 inclusive, and no run is lost to the
\* result's own range check on confidence_score.
ConfidenceInRange ==
    /\ rpc # "invalid"
    /\ rpc = "returned" =>
          /\ result.confidence_score[2] > 0
          /\ 0 <= result.confidence_score[1]
          /\ result.confidence_score[1] <= 100 * result.confidence_score[2]

\* a returned result whose unclamped confidence (95 + 10 or more, relevance 1)
\* exceeded 100
ConfidenceClampedWitness ==
    /\ rpc = "returned"
    /\ result.consensus_type = "unanimous"
    /\ HighCredCount(result.sources) >= 2
    /\ \A k \in 1..Len(result.sources) : result.sources[k].relevance_score = <<1, 1>>
    /\ result.confidence_score = <<100, 1>>

\* C2: a run that ends with no evidence returns unverified, confidence 0,
\* consensus "none", and has made no generate_text call.
NoEvidenceWithoutGeneration ==
    (rpc = "returned" /\ result.sources = <<>>) =>
        /\ result.status = "unverified"
        /\ result.confidence_score = <<0, 1>>
        /\ result.consensus_type = "none"
        /\ genCalls = 0

\* C3: a run in which every generation provider, or every embedding provider,
\* failed ends by raising to its caller and returns no VerificationResult.
ProviderFailureIsExplicit ==
    (RagTerminal /\ (genFailed \/ embFailed)) =>
        /\ rpc = "raised"
        /\ result = NoResult

\* C4: when the stance classification of a candidate raises, that candidate
\* is kept with the label "contradicts" and the run goes on with every
\* retrieved candidate.
ClassifierFailureKeepsCandidates ==
    failedAt > 0 =>
        /\ Len(sources) >= failedAt
        /\ ~sources[failedAt].supports_claim
        /\ rpc = "returned" => Len(result.sources) = Len(results)

\* C8: for a non-empty evidence set the confidence returned equals
\* min(100, (base_confidence + credibility_boost) * avg_relevance), with
\* credibility_boost = min(5 * number of high-credibility sources, 20) and
\* avg_relevance the mean relevance of all candidates.
ConfidenceFormula ==
    (rpc = "returned" /\ result.sources # <<>>) =>
        LET srcs  == result.sources
            n     == Len(srcs)
            high  == Cardinality({k \in 1..n : srcs[k].credibility = "high"})
            boost == IF 5 * high <= 20 THEN 5 * high ELSE 20
            base  == CASE result.consensus_type = "unanimous" -> 95
                       [] result.consensus_type = "majority" -> 70
                       [] result.consensus_type = "split" -> 40
            total == SumRelevance(srcs)
            \* (base + boost) * avg_relevance = rawNum / rawDen
            rawNum == (base + boost) * total[1]
            rawDen == total[2] * n
            conf  == result.confidence_score
        IN  /\ base = consensus.confidence
            /\ IF rawNum > 100 * rawDen
               THEN conf[1] = 100 * conf[2]
               ELSE conf[1] * rawDen = rawNum * conf[2]

\* five high-credibility sources (5 * 5 = 25, capped to 20) and a confidence
\* under 100
BoostCappedWitness ==
    /\ rpc = "returned"
    /\ Len(result.sources) = 5
    /\ HighCredCount(result.sources) = 5
    /\ result.confidence_score[1] < 100 * result.confidence_score[2]

-----------------------------------------------------------------------------
(* Claim about _check_support (SpecStance).                                 *)

\* C5: a candidate is labelled as supporting only when the generation output
\* is the SUPPORTS token, compared case-insensitively; any other output,
\* one holding both tokens or negating the token included, labels it as
\* contradicting.
SupportsOnlyOnToken ==
    spc = "returned" => (supports <=> Upper(response) = SUPPORTS)

-----------------------------------------------------------------------------
(* Claims about _calculate_consensus and _determine_status (SpecConsensus). *)

SupportingCount == Cardinality({k \in 1..Len(kevidence) : kevidence[k].supports_claim})

\* C6: with ratio = supporting / total, the consensus is unanimous with base
\* 95 when ratio >= 0.9 or ratio <= 0.1, else majority with base 70 when
\* ratio >= 0.7 or ratio <= 0.3, else split with base 40; ratio 1 and ratio 0
\* are unanimous and ratio 0.5 is split.
ConsensusBands ==
    kpc \in {"consensus", "status"} =>
        LET n == Len(kevidence)
            s == SupportingCount
            unanimous == 10 * s >= 9 * n \/ 10 * s <= n
            majority  == ~unanimous /\ (10 * s >= 7 * n \/ 10 * s <= 3 * n)
        IN  /\ unanimous => kcons.type = "unanimous" /\ kcons.confidence = 95
            /\ majority => kcons.type = "majority" /\ kcons.confidence = 70
            /\ (~unanimous /\ ~majority) => kcons.type = "split" /\ kcons.confidence = 40
            /\ (s = n \/ s = 0) => kcons.type = "unanimous"
            /\ 2 * s = n => kcons.type = "split"

\* nine of ten sources supporting: ratio exactly 0.9, unanimous
ConsensusBoundaryWitness ==
    /\ kpc = "consensus"
    /\ Len(kevidence) = 10
    /\ SupportingCount = 9
    /\ kcons.type = "unanimous"

\* C7: the status is true iff ratio >= 0.8, false iff ratio <= 0.2,
\* misleading iff 0.3 <= ratio <= 0.7, and unverified for every ratio strictly
\* between 0.2 and 0.3 or strictly between 0.7 and 0.8; outdated is never
\* produced.
StatusBands ==
    kpc = "status" =>
        LET n == Len(kevidence)
            s == SupportingCount
        IN  /\ kstatus = "true" <=> 10 * s >= 8 * n
            /\ kstatus = "false" <=> 10 * s <= 2 * n
            /\ kstatus = "misleading" <=> (3 * n <= 10 * s /\ 10 * s <= 7 * n)
            /\ kstatus = "unverified" <=>
                  \/ (2 * n < 10 * s /\ 10 * s < 3 * n)
                  \/ (7 * n < 10 * s /\ 10 * s < 8 * n)
            /\ kstatus # "outdated"

\* one of four sources supporting: ratio 0.25, in the gap, unverified
StatusGapWitness ==
    /\ kpc = "status"
    /\ Len(kevidence) = 4
    /\ SupportingCount = 1
    /\ kstatus = "unverified"

-----------------------------------------------------------------------------
(* Claim about ModelManager.generate_text (SpecGen).                        *)

\* position of provider p in the priority list
PriorityIndex(p) == CHOOSE k \in 1..Len(order) : order[k] = p

\* the configured providers among the first k of the priority list, in order
RECURSIVE ConfiguredUpTo(_)
ConfiguredUpTo(k) ==
    IF k = 0 THEN <<>>
    ELSE IF order[k] \in clients THEN Append(ConfiguredUpTo(k - 1), order[k])
    ELSE ConfiguredUpTo(k - 1)

AttemptedProviders == [k \in 1..Len(attempts) |-> attempts[k].provider]

\* C9: generate_text tries the configured providers strictly in priority
\* order, each at most once, returns the text of the first that succeeds
\* without contacting a later one, and raises "All model providers failed"
\* exactly when no configured provider succeeds; the loop never runs past one
\* attempt per provider.
FallbackChainBounded ==
    gpc # "idle" =>
        /\ Len(order) = Cardinality(Providers)
        /\ {order[k] : k \in 1..Len(order)} = Providers
        /\ gi \in 1..(Len(order) + 1)
        /\ Len(attempts) <= Cardinality(clients)
        /\ \A j \in 1..Len(attempts) : attempts[j].provider \in clients
        /\ \A j, k \in 1..Len(attempts) :
              j < k => PriorityIndex(attempts[j].provider) < PriorityIndex(attempts[k].provider)
        /\ \A j \in 1..(Len(attempts) - 1) : ~attempts[j].ok
        /\ gpc = "loop" =>
              /\ \A j \in 1..Len(attempts) : ~attempts[j].ok
              /\ AttemptedProviders = ConfiguredUpTo(gi - 1)
              /\ gout = "none"
        /\ gpc = "returned" =>
              /\ attempts # <<>>
              /\ attempts[Len(attempts)].ok
              /\ gout = attempts[Len(attempts)].provider
              /\ AttemptedProviders = ConfiguredUpTo(PriorityIndex(gout))
        /\ gpc = "raised" =>
              /\ \A j \in 1..Len(attempts) : ~attempts[j].ok
              /\ AttemptedProviders = ConfiguredUpTo(Len(order))
              /\ gout = "none"

\* two providers failed, the third returned the text, a fourth configured
\* provider was never contacted
FallbackWitness ==
    /\ gpc = "returned"
    /\ Len(attempts) = 3
    /\ clients = Providers
    /\ preferred = "openai"

-----------------------------------------------------------------------------
(* Claim about increment_claim_velocity (SpecVelocity).                     *)

AllReturned == \A c \in Callers : cpc[c] = "idle"

\* C10: successive increment_claim_velocity calls for one fingerprint inside
\* one window return 1, 2, ..., n and leave the counter at n; the counter has
\* an expiry from its first increment; once the window has expired the
\* counter is gone, and the next increment returns 1 and starts a new window.
VelocityCountsPerWindow ==
    /\ [](\A k \in VelocityKeys :
            AllReturned =>
                /\ returns[k] = [j \in 1..vcount[k] |-> j]
                /\ vcount[k] >= 1 => vttl[k] \in 1..VWindow)
    /\ [][\A k \in VelocityKeys :
            /\ (vttl[k] = 1 /\ vttl'[k] = 0) => vcount'[k] = 0
            /\ (returns[k] = <<>> /\ returns'[k] # <<>>) =>
                  /\ returns'[k] = <<1>>
                  /\ vcount'[k] = 1
                  /\ vttl'[k] = VWindow]_vars

\* a counter that expired and was then incremented twice in a new window,
\* and a counter that reached the largest explored count
VelocityWitness ==
    /\ AllReturned
    /\ expired[VelocityKey("a")]
    /\ returns[VelocityKey("a")] = <<1, 2>>
    /\ vcount[VelocityKey("b")] = MaxIncr


-----------------------------------------------------------------------------
(* Claim about get_trending_claims (SpecTrending).                          *)

\* C11: get_trending_claims(min_velocity = T) reports a fingerprint if and
\* only if its current count is strictly greater than T; a fingerprint whose
\* count is exactly T is not reported.
TrendingIffExceeds ==
    tpc = "returned" =>
        \A k \in VelocityKeys :
            (\E i \in 1..Len(trending) : trending[i] = <<Fingerprint(k), vcount[k]>>)
                <=> vcount[k] > tmin

-----------------------------------------------------------------------------
(* Claims about overlapping increment_claim_velocity calls (SpecConcurrent). *)

\* no call is between its first and its last step
NoCallInProgress == \A c \in Callers : cpc[c] \in {"idle", "cancelled"}

\* the callers cut short after their INCR on key k
CutShort(k) == {c \in Callers : cpc[c] = "cancelled" /\ VelocityKey(ctext[c]) = k}

ReturnedValues(k) == {returns[k][i] : i \in 1..Len(returns[k])}

\* C12: under every interleaving of overlapping increment_claim_velocity
\* calls on one fingerprint within one window, the values returned are
\* pairwise distinct and never exceed the counter; once no call is in
\* progress the k increments made have produced exactly the values 1..k, one
\* per call, and the counter is k.
ConcurrentIncrementsDistinct ==
    \A k \in VelocityKeys :
        /\ \A i, j \in 1..Len(returns[k]) : i # j => returns[k][i] # returns[k][j]
        /\ ReturnedValues(k) \subseteq 1..vcount[k]
        /\ NoCallInProgress =>
              /\ ReturnedValues(k) \cup {ccount[c] : c \in CutShort(k)} = 1..vcount[k]
              /\ Len(returns[k]) + Cardinality(CutShort(k)) = vcount[k]

\* the second caller's increment returned 2 before the first caller, still
\* between its INCR and its EXPIRE, returned 1; a third call then returned 3
ConcurrentWitness ==
    /\ NoCallInProgress
    /\ returns[VelocityKey("a")] = <<2, 1, 3>>
    /\ vcount[VelocityKey("a")] = 3

\* C13: in every reachable state, a caller failing or being cancelled between
\* its increment and its expiry-setting step included, every existing
\* velocity counter with count >= 1 has a window expiry.
EveryCounterHasExpiry ==
    \A k \in VelocityKeys : vcount[k] >= 1 => vttl[k] >= 1


-----------------------------------------------------------------------------
(* Claim about the verification cache (SpecCache).                          *)

\* C14: cache_verification of a dict succeeds, the dict of a result that
\* verify_claim produced included; and get_cached_verification(text) returns
\* a result equal to the one passed to the latest cache_verification(text, r)
\* at every moment before the TTL has run out, and nothing at every moment
\* after.
CacheRoundTrip ==
    /\ cwpc # "raised"
    /\ cgpc = "returned" =>
          cgot = IF casked[cgtext] # NoDict /\ cage[cgtext] < CacheTTL
                 THEN casked[cgtext]
                 ELSE NoDict


-----------------------------------------------------------------------------
(* Claims about the bots' verification flows (SpecFlow).                    *)

CacheUnavailable == ~redis_manager \/ ~redis_up

\* C15: when the cache store is unavailable (not initialised, or its reads
\* and writes fail), a flow still runs extraction and verification and
\* delivers the verdict: it ends with the error reply only when verify_claim
\* itself raised.
CacheFailureDegrades ==
    \A f \in Flows :
        (CacheUnavailable /\ flow[f].pc = "done") =>
            /\ flow[f].claims # "unset"
            /\ flow[f].verification \in SampleResults => flow[f].reply = "verdict"
            /\ flow[f].reply = "error" => flow[f].verification = VerifyRaised

\* the dict as JSON can hold it: the timestamp as a string
AsStored(d) == [d EXCEPT !.verification_timestamp = <<"str", @[2]>>]

\* C16: when two flows for the same claim text both miss the cache and both
\* get a result from verify_claim, both deliver the verdict and the cache
\* then holds one entry for the fingerprint, equal to the result written
\* last.
ConcurrentFlowsLastWriteWins ==
    (/\ ~CacheUnavailable
     /\ \A f \in Flows : flow[f].pc = "done" /\ flow[f].verification \in SampleResults
     /\ flow["f1"].text = flow["f2"].text) =>
        /\ \A f \in Flows : flow[f].reply = "verdict"
        /\ cstore[VerificationKey(flow["f1"].text)] # NoEntry
        /\ RedisGet(VerificationKey(flow["f1"].text)) = AsStored(casked[flow["f1"].text])


-----------------------------------------------------------------------------
(* Claim about the task queue (SpecQueue).                                  *)

\* the deliveries made so far: (consumer, position) pairs
Deliveries == {x \in Consumers \X (1..MaxQueue) : x[2] <= Len(received[x[1]])}

\* C17: every task that dequeue_task returned was passed to enqueue_task
\* earlier, with the same content; no enqueued task is delivered twice, to
\* the same or to two consumers; and the tasks one consumer receives come out
\* in the order in which they were enqueued.
QueueFifoPerConsumer ==
    /\ \A x \in Deliveries :
          LET r == received[x[1]][x[2]]
          IN  /\ r.id \in 1..Len(qlog)
              /\ r.task = qlog[r.id]
    /\ \A x, y \in Deliveries :
          x # y => received[x[1]][x[2]].id # received[y[1]][y[2]].id
    /\ \A c \in Consumers : \A i, j \in 1..Len(received[c]) :
          i < j => received[c][i].id < received[c][j].id

\* four tasks were enqueued while two consumers took them in turn
QueueWitness ==
    /\ Len(qlog) = MaxQueue
    /\ queue = <<>>
    /\ Len(received["k1"]) = 2
    /\ Len(received["k2"]) = 2
    /\ received["k1"][1].id = 1
    /\ received["k2"][1].id = 2
    /\ received["k1"][2].id = 3


-----------------------------------------------------------------------------
(* Claims about find_patient_zero (SpecPatientZero).                        *)

\* the posts whose claim_text contains the text searched for
Candidates == {p \in DOMAIN gposts : Contains(gposts[p].claim_text, qarg[1])}

\* C18: find_patient_zero(c) returns a post with the earliest created_at
\* among all posts whose claim_text contains c, together with a user who
\* posted it, and returns "not found" exactly when no post's claim_text
\* contains c.
PatientZeroIsEarliest ==
    qpc = "patient_zero" =>
        /\ qresult = NotFound <=> Candidates = {}
        /\ qresult # NotFound =>
              /\ qresult.post_id \in Candidates
              /\ \A o \in Candidates : gposts[qresult.post_id].created_at <= gposts[o].created_at
              /\ qresult.created_at = gposts[qresult.post_id].created_at
              /\ \E e \in gposted : e[1] = qresult.user_id /\ e[2] = qresult.post_id

\* C19: when several matching posts share the earliest created_at, the post
\* find_patient_zero returns is the one with the smallest post_id.
PatientZeroTieBreak ==
    (qpc = "patient_zero" /\ qresult # NotFound) =>
        \A o \in Candidates :
            gposts[o].created_at = qresult.created_at =>
                PostRank(qresult.post_id) <= PostRank(o)


-----------------------------------------------------------------------------
(* Claim about get_propagation_tree (SpecPropagation).                      *)

\* the posts k SHARED_FROM hops away from post o
RECURSIVE HopsFrom(_, _)
HopsFrom(o, k) ==
    IF k = 0 THEN {o}
    ELSE {s \in DOMAIN gposts : \E t \in HopsFrom(o, k - 1) : <<s, t>> \in gshared}

\* C20: get_propagation_tree(origin, d) returns exactly the reshare posts
\* between 1 and d SHARED_FROM hops from the origin, each with a user who
\* posted it and with its depth; the origin itself (depth 0) and every post
\* deeper than d are absent.
PropagationTreeExact ==
    qpc = "tree" =>
        LET origin == qarg[1]
            d      == qarg[2]
            rows   == {qresult[i] : i \in 1..Len(qresult)}
        IN  /\ {<<r.post_id, r.depth>> : r \in rows} =
                  UNION {{<<s, k>> : s \in HopsFrom(origin, k)} : k \in 1..d}
            /\ \A r \in rows :
                  /\ r.depth \in 1..d
                  /\ \E e \in gposted : e[1] = r.user_id /\ e[2] = r.post_id


-----------------------------------------------------------------------------
(* Claim about identify_amplifiers (SpecAmplifiers).                        *)

\* C21: identify_amplifiers(origin, T) returns only users who posted a
\* reshare 1 to 3 SHARED_FROM hops from the origin and whose followers_count
\* is greater than T (a user with exactly T followers is excluded); no user
\* appears twice; the list is in falling order of followers_count and has at
\* most 20 entries.
AmplifiersAboveThreshold ==
    qpc = "amplifiers" =>
        LET origin == qarg[1]
            T      == qarg[2]
        IN  /\ \A i \in 1..Len(qresult) :
                  /\ qresult[i].followers_count = gusers[qresult[i].user_id].followers_count
                  /\ qresult[i].followers_count > T
                  /\ \E k \in 1..3 : \E s \in HopsFrom(origin, k) :
                        \E e \in gposted : e[1] = qresult[i].user_id /\ e[2] = s
            /\ \A i, j \in 1..Len(qresult) :
                  /\ i # j => qresult[i].user_id # qresult[j].user_id
                  /\ i < j => qresult[i].followers_count >= qresult[j].followers_count
            /\ Len(qresult) <= 20


-----------------------------------------------------------------------------
(* Claim about the graph the create_* calls build (SpecPropagation).        *)

\* the posts at the shared end of a SHARED_FROM relationship: those a
\* SHARED_FROM chain reaches
ResharePosts == {e[1] : e \in gshared}

\* C22: after any sequence of create_user_node, create_post_node,
\* create_posted_relationship and create_shared_relationship calls, every
\* post reached by a SHARED_FROM chain has exactly one POSTED relationship.
ResharesHaveOnePoster ==
    \A p \in ResharePosts : Cardinality({e \in gposted : e[2] = p}) = 1


-----------------------------------------------------------------------------
(* Claims about the guardrails (SpecGuard).                                 *)

ExpertReviewRouting ==
    greview # NoCall =>
        LET lowConf == RatLt(gver.confidence_score, Rat(gconf.confidence_threshold_low))
            split   == gver.consensus_type = "split"
            p0      == /\ "priority" \in DOMAIN gver.metadata
                       /\ gver.metadata["priority"] \in {PriorityP0, PriorityP0Enum}
            medical == /\ \E term \in MedicalTerms : Contains(Lower(gtext), term)
                       /\ Cardinality({k \in 1..Len(gver.sources) :
                                          gver.sources[k].credibility = "high"}) < 2
        IN  /\ greview.requires_review <=> (lowConf \/ split \/ p0 \/ medical)
            /\ greview.reason =
                  (IF lowConf THEN "Low confidence score"
                   ELSE IF split THEN "Conflicting evidence from sources"
                   ELSE IF p0 THEN "P0 priority claim - potential imminent harm"
                   ELSE IF medical
                   THEN "Medical claim with insufficient high-credibility sources"
                   ELSE "")

\* a result with split consensus and P0 priority at once: the reason is the
\* split consensus
ExpertReviewWitness ==
    /\ greview # NoCall
    /\ RatLe(Rat(gconf.confidence_threshold_low), gver.confidence_score)
    /\ gver.consensus_type = "split"
    /\ "priority" \in DOMAIN gver.metadata
    /\ gver.metadata["priority"] = PriorityP0
    /\ greview = [requires_review |-> TRUE, reason |-> "Conflicting evidence from sources"]


-----------------------------------------------------------------------------
(* Claim about the routing of verify_claim's results (SpecRouting).         *)

\* C25: for every claim of priority P0, require_expert_review returns true
\* on the VerificationResult that verify_claim produced for it, whatever the
\* confidence and the consensus of that result.
P0AlwaysReviewed ==
    (greview # NoCall /\ gclaim # NoClaim /\ gclaim.priority = "P0") =>
        greview.requires_review = TRUE


-----------------------------------------------------------------------------
(* Claim about expert_review_required (SpecRag).                            *)

\* C27: every VerificationResult that verify_claim returns with a
\* confidence_score below 60 has expert_review_required = true, the
\* no-evidence result (status unverified, confidence 0) included.
LowConfidenceNeedsReview ==
    (rpc = "returned" /\ RatLt(result.confidence_score, Rat(60))) =>
        result.expert_review_required = TRUE


-----------------------------------------------------------------------------
(* Claim about bounded waiting (SpecTimeout).                               *)

\* C26: verify_claim eventually returns, with a result or a failure, even
\* when the embedding, text generation or vector store collaborator never
\* responds: no run waits forever.
VerifyEventuallyReturns == <>RagTerminal


-----------------------------------------------------------------------------
(* Claims about check_rate_limit (SpecRate).                                *)

\* the number of 'allowed' answers among the first n of the window
AllowedUpTo(n) == Cardinality({i \in 1..n : ranswers[i].allowed})

\* C28: under every interleaving of check_rate_limit calls for one
\* identifier, at most max_requests calls are answered 'allowed' within one
\* window; a denied call reports remaining 0, an allowed call reports
\* max_requests minus the number of calls allowed so far, and the reported
\* remaining count is never negative.
RateLimitHolds ==
    /\ AllowedUpTo(Len(ranswers)) <= MaxRequests
    /\ \A i \in 1..Len(ranswers) :
          /\ ranswers[i].remaining >= 0
          /\ ~ranswers[i].allowed => ranswers[i].remaining = 0
          /\ ranswers[i].allowed => ranswers[i].remaining = MaxRequests - AllowedUpTo(i)

\* C29: in every reachable state the rate_limit counter, when it exists, has
\* an expiry, under any interleaving of check_rate_limit calls with the
\* expiry of the key (so a denied identifier is allowed again after
\* window_seconds and is never locked out for ever).
RateCounterHasExpiry ==
    rkey # NoKey => rkey.ttl # NoExpiry


-----------------------------------------------------------------------------
(* Claim about process_queue (SpecProcessor).                               *)

\* no task is delivered to the processor twice, a delivered task is no longer
\* on the queue (so a failed one has not been put back), every ended
\* verify_and_respond call is that of the task delivered at its turn, and the
\* processor has not stopped
HandledOnce ==
    /\ \A i, j \in 1..Len(received[Processor]) :
          i # j => received[Processor][i].id # received[Processor][j].id
    /\ \A i \in 1..Len(received[Processor]) : \A k \in 1..Len(queue) :
          queue[k].id # received[Processor][i].id
    /\ \A i \in 1..Len(pdone) : pdone[i].id = received[Processor][i].id
    /\ ppc # "dead"

\* C30: process_queue handles each dequeued task at most once: the task is
\* off the queue before it is processed, a task whose verify_and_respond
\* raises is dropped and never put back, and after such a failure the
\* processor stays alive and goes on to dequeue the next task waiting.
ProcessorAtMostOnce ==
    /\ []HandledOnce
    /\ (ppc = "sleep5" /\ queue # <<>>) ~> Busy

\* the first task failed and the one enqueued after it was then dequeued and
\* processed
ProcessorWitness ==
    /\ Len(pdone) >= 2
    /\ pdone[1] = [id |-> 1, outcome |-> "raised"]
    /\ pdone[2].id = 2

=============================================================================
